---- MODULE Spec2Model ----
(***************************************************************************)
(* Model of the image index service: the upload pipeline                   *)
(* (routes/images.rs upload_image), the file helpers (storage.rs), the     *)
(* model-service client (services/lm_studio.rs), the tag normalizer        *)
(* (tagging.rs) and the Photo Store (models/photo.rs, migrations.rs).      *)
(*                                                                         *)
(* Text is a sequence of one-character strings; bytes are 0..255.          *)
(***************************************************************************)
EXTENDS Integers, Sequences, FiniteSets, TLC

(***************************************************************************)
(* Bounds of the model.                                                    *)
(***************************************************************************)
\* number of upload requests that may be in flight together
MaxUploads == 2
\* number of semantic-search requests that may be in flight together
MaxSearches == 1

Uploads  == 1..MaxUploads
Searches == 1..MaxSearches
\* requests to GET /api/images and to POST /api/images/search in flight
MaxReads == 1
Reads == 1..MaxReads

\* Option<T>: None is the empty sequence, Some(v) the one-element sequence
None == <<>>
Some(v) == <<v>>
Unwrap(o) == o[1]

(***************************************************************************)
(* Text helpers (Rust str::trim, str::split, str::replace, join).          *)
(***************************************************************************)
IsWhitespace(c) == c \in {" ", "\n", "\r", "\t"}

SetMin(S) == CHOOSE x \in S : \A y \in S : x <= y
SetMax(S) == CHOOSE x \in S : \A y \in S : x >= y

\* str::trim: drop leading and trailing whitespace
Trim(s) ==
    LET keep == {i \in 1..Len(s) : ~IsWhitespace(s[i])}
    IN  IF keep = {} THEN <<>> ELSE SubSeq(s, SetMin(keep), SetMax(keep))

\* str::split(c): the pieces between occurrences of c; "" splits to [""]
RECURSIVE SplitOn(_, _)
SplitOn(s, c) ==
    IF \A i \in 1..Len(s) : s[i] # c
    THEN <<s>>
    ELSE LET i == SetMin({k \in 1..Len(s) : s[k] = c})
         IN  <<SubSeq(s, 1, i - 1)>> \o SplitOn(SubSeq(s, i + 1, Len(s)), c)

\* str::replace(from, to) for single characters
ReplaceChar(s, from, to) == [i \in 1..Len(s) |-> IF s[i] = from THEN to ELSE s[i]]

\* the characters of s that are not in the set cs
RemoveChars(s, cs) == SelectSeq(s, LAMBDA ch : ch \notin cs)

\* [String].join(sep)
RECURSIVE Join(_, _)
Join(parts, sep) ==
    IF parts = <<>> THEN <<>>
    ELSE IF Len(parts) = 1 THEN parts[1]
    ELSE parts[1] \o sep \o Join(Tail(parts), sep)

UpperCase == <<"A","B","C","D","E","F","G","H","I","J","K","L","M",
               "N","O","P","Q","R","S","T","U","V","W","X","Y","Z">>
LowerCase == <<"a","b","c","d","e","f","g","h","i","j","k","l","m",
               "n","o","p","q","r","s","t","u","v","w","x","y","z">>

\* str::to_lowercase
ToLowercase(s) ==
    [i \in 1..Len(s) |->
        IF \E k \in 1..26 : UpperCase[k] = s[i]
        THEN LowerCase[CHOOSE k \in 1..26 : UpperCase[k] = s[i]]
        ELSE s[i]]

(***************************************************************************)
(* tagging.rs                                                              *)
(***************************************************************************)
\* parse_tags that drops the empty pieces without trimming any
parse_tags_untrimmed(input) ==
    SelectSeq(SplitOn(input, ","), LAMBDA tag : tag # <<>>)

\* parse_tags: split on ',', trim each piece, drop the empty ones
parse_tags(input) ==
    LET pieces  == SplitOn(input, ",")
        trimmed == [i \in 1..Len(pieces) |-> Trim(pieces[i])]
    IN  SelectSeq(trimmed, LAMBDA tag : tag # <<>>)

(***************************************************************************)
(* errors.rs                                                               *)
(***************************************************************************)
BAD_REQUEST == 400
INTERNAL_SERVER_ERROR == 500
OK == 200

\* AppError::bad_request
bad_request(message) == [status |-> BAD_REQUEST, message |-> message]
\* AppError::internal
internal(message) == [status |-> INTERNAL_SERVER_ERROR, message |-> message]
\* From<anyhow::Error> for AppError and From<sqlx::Error> for AppError
AppErrorFrom(err) == internal("internal server error")

Ok(v)  == [ok |-> TRUE,  value |-> v]
Err(e) == [ok |-> FALSE, error |-> e]

(***************************************************************************)
(* storage.rs                                                              *)
(***************************************************************************)
IMAGES_DIR == <<"i","m","a","g","e","s">>

\* Path::file_name on a Unix path: the last component when it is a normal
\* one; None for no component, the root, "." and a path ending in "..".
\* Empty pieces and "." pieces are not components (a leading "." is CurDir).
PathFileName(path) ==
    LET pieces == SplitOn(path, "/")
        comps  == SelectSeq(pieces, LAMBDA c : c # <<>> /\ c # <<".">>)
    IN  IF comps = <<>> THEN None
        ELSE IF comps[Len(comps)] = <<".", ".">> THEN None
        ELSE Some(comps[Len(comps)])

\* Path::extension: the text after the last '.' of the file name; None when
\* there is no '.', or the only '.' is the first character
PathExtension(path) ==
    LET file == PathFileName(path)
    IN  IF file = None THEN None
        ELSE LET name == Unwrap(file)
                 dots == {i \in 1..Len(name) : name[i] = "."}
             IN  IF dots = {} \/ SetMax(dots) = 1 THEN None
                 ELSE Some(SubSeq(name, SetMax(dots) + 1, Len(name)))

\* Path::join of a relative file name onto a directory
PathJoin(dir, file_name) == dir \o <<"/">> \o file_name

sanitize_file_name(file_name) ==
    LET trimmed   == Trim(file_name)
        candidate == PathFileName(trimmed)
    IN  IF candidate = None
        THEN Err(bad_request("file_name must not contain path separators"))
        ELSE IF Unwrap(candidate) = <<>>
        THEN Err(bad_request("file_name cannot be empty"))
        ELSE Ok(ReplaceChar(Unwrap(candidate), " ", "_"))

\* the standard base64 alphabet; a character's value is its index minus one
B64Alphabet ==
    <<"A","B","C","D","E","F","G","H","I","J","K","L","M","N","O","P",
      "Q","R","S","T","U","V","W","X","Y","Z","a","b","c","d","e","f",
      "g","h","i","j","k","l","m","n","o","p","q","r","s","t","u","v",
      "w","x","y","z","0","1","2","3","4","5","6","7","8","9","+","/">>

IsB64(c) == \E k \in 1..64 : B64Alphabet[k] = c
B64Val(c) == (CHOOSE k \in 1..64 : B64Alphabet[k] = c) - 1

\* the bytes of one group of four characters; None when the group is invalid.
\* Padding ('=') is accepted in the last group only and the bits it leaves
\* unused must be zero (the STANDARD engine's canonical padding).
B64Group(g, last) ==
    IF IsB64(g[1]) /\ IsB64(g[2]) /\ IsB64(g[3]) /\ IsB64(g[4])
    THEN LET v == B64Val(g[1]) * 262144 + B64Val(g[2]) * 4096
                  + B64Val(g[3]) * 64 + B64Val(g[4])
         IN  Some(<<v \div 65536, (v \div 256) % 256, v % 256>>)
    ELSE IF last /\ IsB64(g[1]) /\ IsB64(g[2]) /\ IsB64(g[3]) /\ g[4] = "="
    THEN IF B64Val(g[3]) % 4 # 0 THEN None
         ELSE LET v == B64Val(g[1]) * 262144 + B64Val(g[2]) * 4096
                       + B64Val(g[3]) * 64
              IN  Some(<<v \div 65536, (v \div 256) % 256>>)
    ELSE IF last /\ IsB64(g[1]) /\ IsB64(g[2]) /\ g[3] = "=" /\ g[4] = "="
    THEN IF B64Val(g[2]) % 16 # 0 THEN None
         ELSE Some(<<(B64Val(g[1]) * 4) + (B64Val(g[2]) \div 16)>>)
    ELSE None

\* STANDARD.decode: None on any invalid input
RECURSIVE B64Decode(_)
B64Decode(s) ==
    IF s = <<>> THEN Some(<<>>)
    ELSE IF Len(s) < 4 THEN None
    ELSE LET head == B64Group(SubSeq(s, 1, 4), Len(s) = 4)
             rest == B64Decode(SubSeq(s, 5, Len(s)))
         IN  IF head = None \/ rest = None THEN None
             ELSE Some(Unwrap(head) \o Unwrap(rest))

\* a mutation of decode_image that turns an invalid payload into no bytes
decode_anything(encoded) ==
    LET bytes == B64Decode(RemoveChars(encoded, {"\n", "\r"}))
    IN  IF bytes = None THEN Ok(<<>>) ELSE Ok(Unwrap(bytes))

decode_image(encoded) ==
    LET cleaned == RemoveChars(encoded, {"\n", "\r"})
        bytes   == B64Decode(cleaned)
    IN  IF bytes = None
        THEN Err(bad_request("image_base64 must be valid base64"))
        ELSE Ok(Unwrap(bytes))

infer_mime_type(file_name) ==
    LET e   == PathExtension(file_name)
        ext == IF e = None THEN <<>> ELSE ToLowercase(Unwrap(e))
    IN  IF e = None THEN None
        ELSE IF ext = <<"p","n","g">> THEN Some("image/png")
        ELSE IF ext = <<"j","p","g">> \/ ext = <<"j","p","e","g">> THEN Some("image/jpeg")
        ELSE IF ext = <<"g","i","f">> THEN Some("image/gif")
        ELSE IF ext = <<"b","m","p">> THEN Some("image/bmp")
        ELSE None

(***************************************************************************)
(* services/lm_studio.rs                                                   *)
(*                                                                         *)
(* A reply of the chat-completion endpoint is                              *)
(*   [sent, status, json, choices], choices a sequence of message contents *)
(*   [kind |-> "Text", text, parts] or [kind |-> "Parts", text, parts],    *)
(*   parts a sequence of Option<text>;                                     *)
(* a reply of the embeddings endpoint is [sent, status, json, data], data  *)
(* a sequence of vectors. A vector [dim, xy] has dim components, the first *)
(* two being xy and the others zero.                                       *)
(***************************************************************************)
TextContent(text)   == [kind |-> "Text",  text |-> text, parts |-> <<>>]
PartsContent(parts) == [kind |-> "Parts", text |-> <<>>, parts |-> parts]

\* reqwest error_for_status: client and server error statuses are errors
error_for_status(status) == status >= 400 /\ status < 600

\* MessageContent::into_string
into_string(content) ==
    IF content.kind = "Text" THEN Some(content.text)
    ELSE LET texts    == SelectSeq(content.parts, LAMBDA part : part # None)
             segments == [i \in 1..Len(texts) |-> Trim(Unwrap(texts[i]))]
             text     == Join(SelectSeq(segments, LAMBDA seg : seg # <<>>), <<" ">>)
         IN  IF text = <<>> THEN None ELSE Some(text)

\* LmStudioClient::chat_completion on the reply it receives
chat_completion(reply) ==
    IF ~reply.sent THEN Err("failed to contact LM Studio")
    ELSE IF error_for_status(reply.status) THEN Err("LM Studio returned an error status")
    ELSE IF ~reply.json THEN Err("LM Studio response was not valid JSON")
    ELSE IF reply.choices = <<>> THEN Err("LM Studio response contained no choices")
    ELSE LET text == into_string(reply.choices[1])
         IN  IF text = None
             THEN Err("LM Studio response did not include textual content")
             ELSE Ok(Trim(Unwrap(text)))

\* a mutation of tag_image that degrades a failed call to an empty tag list
tag_image_degrading(reply) ==
    LET response == chat_completion(reply)
    IN  IF ~response.ok THEN Ok(<<>>) ELSE Ok(parse_tags(response.value))

\* LmStudioClient::tag_image on the reply it receives
tag_image(reply) ==
    LET response == chat_completion(reply)
    IN  IF ~response.ok THEN Err("LM Studio failed to tag image")
        ELSE Ok(parse_tags(response.value))

\* LmStudioClient::tags_from_query on the reply it receives
tags_from_query(reply) ==
    LET response == chat_completion(reply)
    IN  IF ~response.ok THEN Err("LM Studio failed to process search query")
        ELSE Ok(parse_tags(response.value))

\* LmStudioClient::embed_texts on the reply it receives
\* embed_texts that pairs vectors with inputs and drops the surplus
embed_texts_truncating(inputs, reply) ==
    IF ~reply.sent THEN Err("failed to contact LM Studio for embeddings")
    ELSE IF error_for_status(reply.status)
    THEN Err("LM Studio embeddings returned an error status")
    ELSE IF ~reply.json THEN Err("LM Studio embeddings response was not valid JSON")
    ELSE IF Len(reply.data) < Len(inputs)
    THEN Err("LM Studio returned a wrong number of embeddings")
    ELSE Ok(SubSeq(reply.data, 1, Len(inputs)))

embed_texts(inputs, reply) ==
    IF ~reply.sent THEN Err("failed to contact LM Studio for embeddings")
    ELSE IF error_for_status(reply.status)
    THEN Err("LM Studio embeddings returned an error status")
    ELSE IF ~reply.json THEN Err("LM Studio embeddings response was not valid JSON")
    ELSE IF Len(reply.data) # Len(inputs)
    THEN Err("LM Studio returned a wrong number of embeddings")
    ELSE Ok(reply.data)

(***************************************************************************)
(* models/photo.rs, migrations.rs: the Photo Store                         *)
(*                                                                         *)
(* photos is the table in insertion order; a row is                        *)
(* [photo_id, file_name, file_path, tags, tag_embedding, created_at].      *)
(***************************************************************************)
\* the dimension of the tag_embedding column, vector(768)
EMBEDDING_DIM == 768

\* struct Photo: what a query returns of a row (no tag_embedding)
Photo(row) ==
    [photo_id   |-> row.photo_id,
     file_name  |-> row.file_name,
     file_path  |-> row.file_path,
     tags       |-> row.tags,
     created_at |-> row.created_at]

\* a mutation of the column: a vector of any dimension is stored
ColumnAcceptsAnyDim(embedding) == TRUE

\* whether the tag_embedding column, vector(768), accepts the value
ColumnAccepts(embedding) ==
    embedding = None \/ Unwrap(embedding).dim = EMBEDDING_DIM

\* Photo::add_photo: the INSERT ... RETURNING. db is whether the store answers,
\* id the next value of the photo_id sequence, ts the value of NOW().
add_photo(db, id, ts, file_name, file_path, tag_list, embedding) ==
    IF ~db THEN Err("Io")
    ELSE IF ~ColumnAccepts(embedding) THEN Err("Database")
    ELSE Ok([photo_id      |-> id,
             file_name     |-> file_name,
             file_path     |-> file_path,
             tags          |-> tag_list,
             tag_embedding |-> embedding,
             created_at    |-> ts])

\* the cosine distance of two vectors in thousandths. The vectors of the
\* model have integer norms and distances that are whole thousandths.
Norm(xy) ==
    LET sq  == xy[1] * xy[1] + xy[2] * xy[2]
        top == (IF xy[1] < 0 THEN -xy[1] ELSE xy[1]) + (IF xy[2] < 0 THEN -xy[2] ELSE xy[2])
    IN  CHOOSE n \in 0..top : n * n = sq

CosineDistance(a, b) ==
    1000 - ((1000 * (a.xy[1] * b.xy[1] + a.xy[2] * b.xy[2])) \div (Norm(a.xy) * Norm(b.xy)))

\* the orders a query may return the rows `rows` (a set of indices of the
\* table) in under ORDER BY key, key being the function from row index to the
\* sort value: rows of equal key come in any order
RECURSIVE Orderings(_, _, _)
Orderings(rows, key, descending) ==
    IF rows = {} THEN { <<>> }
    ELSE LET first == { r \in rows :
                          \A o \in rows : IF descending THEN key[r] >= key[o]
                                                        ELSE key[r] <= key[o] }
         IN  UNION { { <<r>> \o rest : rest \in Orderings(rows \ {r}, key, descending) } :
                     r \in first }

\* LIMIT n
Limit(ord, n) == SubSeq(ord, 1, IF n < Len(ord) THEN n ELSE Len(ord))

\* the Photo values of the rows at the indices ord
PhotosAt(table, ord) == [i \in 1..Len(ord) |-> Photo(table[ord[i]])]

\* Photo::list_all: the lists the SELECT ... ORDER BY created_at DESC may return
list_all(table) ==
    { PhotosAt(table, ord) :
        ord \in Orderings(1..Len(table), [i \in 1..Len(table) |-> table[i].created_at], TRUE) }

\* search_by_tags with @> in place of &&: rows that carry every search tag
search_by_tags_contains_all(table, search_tags) ==
    IF search_tags = <<>> THEN list_all(table)
    ELSE LET hits == { i \in 1..Len(table) :
                         \A m \in 1..Len(search_tags) :
                             \E k \in 1..Len(table[i].tags) :
                                 table[i].tags[k] = search_tags[m] }
         IN  { PhotosAt(table, ord) :
                 ord \in Orderings(hits, [i \in hits |-> table[i].created_at], TRUE) }

\* Photo::search_by_tags: rows whose tags overlap search_tags (tags && $1),
\* newest first; list_all for an empty filter
search_by_tags(table, search_tags) ==
    IF search_tags = <<>> THEN list_all(table)
    ELSE LET hits == { i \in 1..Len(table) :
                         \E k \in 1..Len(table[i].tags), m \in 1..Len(search_tags) :
                             table[i].tags[k] = search_tags[m] }
         IN  { PhotosAt(table, ord) :
                 ord \in Orderings(hits, [i \in hits |-> table[i].created_at], TRUE) }

\* the tuning constants of the adaptive threshold, in thousandths
ADAPTIVE_DELTA == 50
ADAPTIVE_MAX_CAP == 600

\* search_by_embedding whose adaptive query leaves LEAST(.., max_cap) out
search_by_embedding_uncapped(table, query_embedding, limit_, threshold) ==
    LET embedded == { i \in 1..Len(table) : table[i].tag_embedding # None }
        dist     == [i \in embedded |->
                       CosineDistance(Unwrap(table[i].tag_embedding), query_embedding)]
    IN  IF threshold # None
        THEN LET within == { i \in embedded : dist[i] <= Unwrap(threshold) }
             IN  { PhotosAt(table, Limit(ord, limit_)) :
                     ord \in Orderings(within, dist, FALSE) }
        ELSE UNION {
               LET ranked == { ord[k] : k \in 1..(IF limit_ < Len(ord) THEN limit_ ELSE Len(ord)) }
                   least  == IF ranked = {} THEN 0
                             ELSE SetMin({ dist[i] : i \in ranked })
                   kept   == { i \in ranked : dist[i] <= least + ADAPTIVE_DELTA }
               IN  { PhotosAt(table, ord2) : ord2 \in Orderings(kept, dist, FALSE) }
               : ord \in Orderings(embedded, dist, FALSE) }

\* search_by_embedding whose explicit-threshold query also applies max_cap
search_by_embedding_capped(table, query_embedding, limit_, threshold) ==
    LET embedded == { i \in 1..Len(table) : table[i].tag_embedding # None }
        dist     == [i \in embedded |->
                       CosineDistance(Unwrap(table[i].tag_embedding), query_embedding)]
    IN  IF threshold # None
        THEN LET within == { i \in embedded : /\ dist[i] <= Unwrap(threshold)
                                              /\ dist[i] <= ADAPTIVE_MAX_CAP }
             IN  { PhotosAt(table, Limit(ord, limit_)) :
                     ord \in Orderings(within, dist, FALSE) }
        ELSE UNION {
               LET ranked == { ord[k] : k \in 1..(IF limit_ < Len(ord) THEN limit_ ELSE Len(ord)) }
                   least  == IF ranked = {} THEN 0
                             ELSE SetMin({ dist[i] : i \in ranked })
                   bound  == IF least + ADAPTIVE_DELTA < ADAPTIVE_MAX_CAP
                             THEN least + ADAPTIVE_DELTA ELSE ADAPTIVE_MAX_CAP
                   kept   == { i \in ranked : dist[i] <= bound }
               IN  { PhotosAt(table, ord2) : ord2 \in Orderings(kept, dist, FALSE) }
               : ord \in Orderings(embedded, dist, FALSE) }

\* search_by_embedding whose final SELECT carries no ORDER BY: the rows kept
\* come back in any order
search_by_embedding_unordered(table, query_embedding, limit_, threshold) ==
    LET embedded == { i \in 1..Len(table) : table[i].tag_embedding # None }
        dist     == [i \in embedded |->
                       CosineDistance(Unwrap(table[i].tag_embedding), query_embedding)]
        any      == [i \in embedded |-> 0]
    IN  IF threshold # None
        THEN LET within == { i \in embedded : dist[i] <= Unwrap(threshold) }
             IN  UNION { { PhotosAt(table, ord2) :
                             ord2 \in Orderings({ ord[k] : k \in 1..Len(Limit(ord, limit_)) },
                                              any, FALSE) } :
                         ord \in Orderings(within, dist, FALSE) }
        ELSE UNION {
               LET ranked == { ord[k] : k \in 1..(IF limit_ < Len(ord) THEN limit_ ELSE Len(ord)) }
                   least  == IF ranked = {} THEN 0
                             ELSE SetMin({ dist[i] : i \in ranked })
                   bound  == IF least + ADAPTIVE_DELTA < ADAPTIVE_MAX_CAP
                             THEN least + ADAPTIVE_DELTA ELSE ADAPTIVE_MAX_CAP
                   kept   == { i \in ranked : dist[i] <= bound }
               IN  { PhotosAt(table, ord2) : ord2 \in Orderings(kept, any, FALSE) }
               : ord \in Orderings(embedded, dist, FALSE) }

\* search_by_embedding that ranks a row without an embedding as if it were
\* at distance 0
search_by_embedding_null_as_zero(table, query_embedding, limit_, threshold) ==
    LET embedded == 1..Len(table)
        dist     == [i \in embedded |->
                       IF table[i].tag_embedding = None THEN 0
                       ELSE CosineDistance(Unwrap(table[i].tag_embedding), query_embedding)]
    IN  IF threshold # None
        THEN LET within == { i \in embedded : dist[i] <= Unwrap(threshold) }
             IN  { PhotosAt(table, Limit(ord, limit_)) :
                     ord \in Orderings(within, dist, FALSE) }
        ELSE UNION {
               LET ranked == { ord[k] : k \in 1..(IF limit_ < Len(ord) THEN limit_ ELSE Len(ord)) }
                   least  == IF ranked = {} THEN 0
                             ELSE SetMin({ dist[i] : i \in ranked })
                   bound  == IF least + ADAPTIVE_DELTA < ADAPTIVE_MAX_CAP
                             THEN least + ADAPTIVE_DELTA ELSE ADAPTIVE_MAX_CAP
                   kept   == { i \in ranked : dist[i] <= bound }
               IN  { PhotosAt(table, ord2) : ord2 \in Orderings(kept, dist, FALSE) }
               : ord \in Orderings(embedded, dist, FALSE) }

\* Photo::search_by_embedding: the lists its query may return; threshold is
\* Option<thousandths>
search_by_embedding(table, query_embedding, limit_, threshold) ==
    LET embedded == { i \in 1..Len(table) : table[i].tag_embedding # None }
        dist     == [i \in embedded |->
                       CosineDistance(Unwrap(table[i].tag_embedding), query_embedding)]
    IN  IF threshold # None
        THEN LET within == { i \in embedded : dist[i] <= Unwrap(threshold) }
             IN  { PhotosAt(table, Limit(ord, limit_)) :
                     ord \in Orderings(within, dist, FALSE) }
        ELSE UNION {
               LET ranked == { ord[k] : k \in 1..(IF limit_ < Len(ord) THEN limit_ ELSE Len(ord)) }
                   least  == IF ranked = {} THEN 0
                             ELSE SetMin({ dist[i] : i \in ranked })
                   bound  == IF least + ADAPTIVE_DELTA < ADAPTIVE_MAX_CAP
                             THEN least + ADAPTIVE_DELTA ELSE ADAPTIVE_MAX_CAP
                   kept   == { i \in ranked : dist[i] <= bound }
               IN  { PhotosAt(table, ord2) : ord2 \in Orderings(kept, dist, FALSE) }
               : ord \in Orderings(embedded, dist, FALSE) }

\* whether the distance operator accepts the query vector against the rows
\* it is evaluated on: it raises an error on vectors of different dimensions
DistanceDefined(table, query_embedding) ==
    \A i \in 1..Len(table) :
        table[i].tag_embedding # None
            => Unwrap(table[i].tag_embedding).dim = query_embedding.dim

(***************************************************************************)
(* storage.rs: the file store. disk maps each existing path to its file,   *)
(* [bytes, writer], writer being the upload whose write produced it.       *)
(***************************************************************************)
FileExists(files, path) == path \in DOMAIN files

WriteFile(files, path, file) ==
    [q \in DOMAIN files \cup {path} |-> IF q = path THEN file ELSE files[q]]

RemoveFile(files, path) == [q \in DOMAIN files \ {path} |-> files[q]]

\* what fs::create_dir_all followed by fs::write can do
SaveOutcomes == {"written", "create_dir_failed", "open_failed", "write_failed"}

\* save_image: the result and the disk after it. A write that fails after
\* the file was opened leaves the file truncated to a part of the bytes.
save_image(files, file_name, bytes, writer, outcome, written) ==
    LET path == PathJoin(IMAGES_DIR, file_name)
    IN  IF outcome = "create_dir_failed"
        THEN [result |-> Err("failed to ensure images directory exists"),
              disk   |-> files]
        ELSE IF outcome = "open_failed"
        THEN [result |-> Err("failed to write"), disk |-> files]
        ELSE IF outcome = "write_failed"
        THEN [result |-> Err("failed to write"),
              disk   |-> WriteFile(files, path,
                            [bytes  |-> SubSeq(bytes, 1, written),
                             writer |-> writer])]
        ELSE [result |-> Ok(path),
              disk   |-> WriteFile(files, path, [bytes |-> bytes, writer |-> writer])]

\* a mutation of remove_image that removes nothing
remove_image_noop(files, path, fails) ==
    [result |-> IF FileExists(files, path) THEN "removed" ELSE "NotFound",
     disk   |-> files]

\* remove_image: what fs::remove_file returned, and the disk after it.
\* fails is whether the file system refuses to remove an existing file.
remove_image(files, path, fails) ==
    IF path = <<>> THEN [result |-> "skipped", disk |-> files]
    ELSE IF ~FileExists(files, path) THEN [result |-> "NotFound", disk |-> files]
    ELSE IF fails THEN [result |-> "failed", disk |-> files]
    ELSE [result |-> "removed", disk |-> RemoveFile(files, path)]

(***************************************************************************)
(* The requests and the replies the environment chooses among.             *)
(***************************************************************************)
\* UploadRequest { file_name, image_base64, mime_type }
UploadRequest(file_name, image_base64, mime) ==
    [file_name |-> file_name, image_base64 |-> image_base64, mime_type |-> mime]

\* "QQ==" is the byte 65, "QUI=" the bytes 65 66
ValidUploads ==
    { UploadRequest(<<"a",".","p","n","g">>, <<"Q","Q","=","=">>, None),
      UploadRequest(<<" ","d","/","a",".","p","n","g">>, <<"Q","U","\n","I","=">>, None),
      UploadRequest(<<"b"," ","c">>, <<"Q","Q","=","=">>, Some("image/gif")) }

InvalidUploads ==
    { UploadRequest(<<>>, <<"Q","Q","=","=">>, None),
      UploadRequest(<<" ","\t">>, <<"Q","Q","=","=">>, None),
      UploadRequest(<<"a",".","p","n","g">>, <<>>, None),
      UploadRequest(<<"a",".","p","n","g">>, <<" ","\n">>, None),
      UploadRequest(<<"d","/",".",".">>, <<"Q","Q","=","=">>, None),
      UploadRequest(<<"/">>, <<"Q","Q","=","=">>, Some("image/png")),
      UploadRequest(<<".">>, <<"Q","Q","=","=">>, None),
      UploadRequest(<<"a",".","p","n","g">>, <<"Q","Q","=">>, None),
      UploadRequest(<<"a",".","p","n","g">>, <<"Q","R","=","=">>, None),
      UploadRequest(<<"a",".","p","n","g">>, <<"Q"," ","Q","=","=">>, None),
      UploadRequest(<<"a",".","p","n","g">>, <<"Q","Q","=","=","Q","Q","=","=">>, None),
      UploadRequest(<<"a",".","t","x","t">>, <<"Q","Q","=","=">>, None),
      UploadRequest(<<".","p","n","g">>, <<"Q","Q","=","=">>, None),
      UploadRequest(<<"a">>, <<"Q","Q","=","=">>, None) }

UploadPayloads == ValidUploads \cup InvalidUploads

ChatReply(sent, status, json, choices) ==
    [sent |-> sent, status |-> status, json |-> json, choices |-> choices]

\* replies of the chat-completion endpoint to an image-tagging request
ChatReplies ==
    { ChatReply(FALSE, 0, FALSE, <<>>),
      ChatReply(TRUE, 500, FALSE, <<>>),
      ChatReply(TRUE, 404, TRUE, <<TextContent(<<"c","a","t">>)>>),
      ChatReply(TRUE, 200, FALSE, <<>>),
      ChatReply(TRUE, 200, TRUE, <<>>),
      ChatReply(TRUE, 200, TRUE, <<PartsContent(<<None, Some(<<" ">>)>>)>>),
      ChatReply(TRUE, 200, TRUE, <<TextContent(<<>>)>>),
      ChatReply(TRUE, 200, TRUE, <<TextContent(<<" ",","," ",",","\n">>)>>),
      ChatReply(TRUE, 200, TRUE, <<TextContent(<<"c","a","t",","," ","s","u","n","\n">>)>>),
      ChatReply(TRUE, 200, TRUE,
                <<PartsContent(<<Some(<<" ","c","a","t",",">>), None, Some(<<"s","u","n">>)>>),
                  TextContent(<<"d","o","g">>)>>) }

Vector(dim, xy) == [dim |-> dim, xy |-> xy]

EmbedReply(sent, status, json, data) ==
    [sent |-> sent, status |-> status, json |-> json, data |-> data]

\* replies of the embeddings endpoint to a request with one input
EmbedReplies ==
    { EmbedReply(FALSE, 0, FALSE, <<>>),
      EmbedReply(TRUE, 503, FALSE, <<>>),
      EmbedReply(TRUE, 200, FALSE, <<>>),
      EmbedReply(TRUE, 200, TRUE, <<>>),
      EmbedReply(TRUE, 200, TRUE,
                 <<Vector(EMBEDDING_DIM, <<1, 0>>), Vector(EMBEDDING_DIM, <<0, 1>>)>>),
      EmbedReply(TRUE, 200, TRUE, <<Vector(EMBEDDING_DIM, <<1, 0>>)>>),
      EmbedReply(TRUE, 200, TRUE, <<Vector(EMBEDDING_DIM + 256, <<1, 0>>)>>) }

\* what tokio::time::timeout(.., embed_texts(..)) observes: the timer elapsed,
\* or the reply arrived in time
EmbedOutcomes ==
    {[elapsed |-> TRUE, reply |-> EmbedReply(FALSE, 0, FALSE, <<>>)]}
    \cup {[elapsed |-> FALSE, reply |-> reply] : reply \in EmbedReplies}

\* what tokio::time::timeout(.., tags_from_query(..)) observes
\* ChatOutcomes of a tagging call that no timer bounds
ChatOutcomesUnbounded ==
    {[elapsed |-> FALSE, reply |-> reply] : reply \in ChatReplies}

ChatOutcomes ==
    {[elapsed |-> TRUE, reply |-> ChatReply(FALSE, 0, FALSE, <<>>)]}
    \cup {[elapsed |-> FALSE, reply |-> reply] : reply \in ChatReplies}

\* replies of the embeddings endpoint to a search query
QueryEmbedReplies ==
    EmbedReplies \cup { EmbedReply(TRUE, 200, TRUE, <<Vector(EMBEDDING_DIM, <<4, 3>>)>>),
                        EmbedReply(TRUE, 200, TRUE, <<Vector(EMBEDDING_DIM, <<0, -1>>)>>) }

QueryEmbedOutcomes ==
    {[elapsed |-> TRUE, reply |-> EmbedReply(FALSE, 0, FALSE, <<>>)]}
    \cup {[elapsed |-> FALSE, reply |-> reply] : reply \in QueryEmbedReplies}

\* VectorSearchRequest { query, limit, max_distance }, max_distance in thousandths
VectorSearchRequest(query, limit_, max_distance) ==
    [query |-> query, limit |-> limit_, max_distance |-> max_distance]

SearchQueries == { <<>>, <<" ", "\t", "\n">>, <<" ", "c", "a", "t", " ">> }

SearchBodies ==
    { VectorSearchRequest(query, None, None) : query \in SearchQueries }
    \cup { VectorSearchRequest(<<" ", "c", "a", "t", " ">>, limit_, max_distance) :
             limit_ \in {None, Some(-3), Some(0), Some(3), Some(500)},
             max_distance \in {None, Some(30), Some(900)} }

\* ListImagesParams { tags }
ListImagesParams(tags_param) == [tags |-> tags_param]

ListParams ==
    { ListImagesParams(None),
      ListImagesParams(Some(<<>>)),
      ListImagesParams(Some(<<" ", ",", " ">>)),
      ListImagesParams(Some(<<"c","a","t">>)),
      ListImagesParams(Some(<<"s","u","n",","," ","d","o","g">>)),
      ListImagesParams(Some(<<"z","z","z">>)) }

\* SearchRequest { query }
SearchRequest(query) == [query |-> query]

SearchRequests == { SearchRequest(query) : query \in SearchQueries }

\* a row of the photos table
Row(id, name, tag_list, embedding, ts) ==
    [photo_id      |-> id,
     file_name     |-> name,
     file_path     |-> PathJoin(IMAGES_DIR, name),
     tags          |-> tag_list,
     tag_embedding |-> embedding,
     created_at    |-> ts]

\* tables the upload pipeline can have produced before the searches start
SearchStores ==
    { <<>>,
      << Row(1, <<"a",".","p","n","g">>, << <<"c","a","t">>, <<"s","u","n">> >>, None, 0) >>,
      << Row(1, <<"a",".","p","n","g">>, << <<"c","a","t">>, <<"s","u","n">> >>,
             Some(Vector(EMBEDDING_DIM, <<1, 0>>)), 0),
         Row(2, <<"b","_","c">>, << <<"d","o","g">> >>, None, 0),
         Row(3, <<"c",".","g","i","f">>, << <<"s","u","n">> >>,
             Some(Vector(EMBEDDING_DIM, <<24, 7>>)), 1),
         Row(4, <<"d",".","g","i","f">>, << <<"c","a","t">> >>,
             Some(Vector(EMBEDDING_DIM, <<3, 4>>)), 1),
         Row(5, <<"e",".","j","p","g">>, << <<"s","e","a">> >>,
             Some(Vector(EMBEDDING_DIM, <<7, 24>>)), 2) >> }

\* the files of the rows of a table, written before the model starts
DiskOf(table) ==
    [path \in { table[i].file_path : i \in 1..Len(table) } |->
        [bytes |-> <<65>>, writer |-> 0]]

(***************************************************************************)
(* routes/images.rs: upload_image                                          *)
(***************************************************************************)
VARIABLES
    pc,             \* the await each upload is suspended at
    sanitized_name, \* upload_image locals
    image_bytes,
    mime_type,
    tags,
    saved_path,
    tag_embedding,
    err,            \* the sqlx error of a failed insert
    remove_result,  \* what fs::remove_file returned to remove_image
    result,         \* the response of each finished upload
    calls,          \* the external calls each upload has issued, in order
    errlog,         \* the error! line each upload logged
    disk,           \* the file store
    photos,         \* the photos table
    next_id,        \* the photo_id sequence
    clock,          \* the store's NOW()
    search_pc,      \* the await each semantic search is suspended at
    body,           \* semantic_search_images locals
    query_vec,
    limit,
    fallback_reason,
    fallback_tags,
    search_result,  \* the response of each finished search
    search_calls,   \* the external calls each search has issued, in order
    search_errlog,  \* the error! line each search logged
    list_pc,        \* the await each list request is suspended at
    list_tags,      \* list_images locals
    list_params,
    list_result,    \* the response of each finished list request
    list_calls,     \* the store calls each list request has issued, in order
    list_errlog,    \* the error! line each list request logged
    plain_pc,       \* the await each tag search is suspended at
    plain_body,     \* search_images locals
    plain_tags,
    plain_result,   \* the response of each finished tag search
    plain_calls,    \* the external calls each tag search has issued, in order
    plain_errlog,   \* the error! line each tag search logged
    embed_inputs,   \* the texts handed to one call of embed_texts
    embed_reply,    \* what the embeddings endpoint answered to it
    embed_result,   \* what the call returned
    tags_input,     \* the text handed to one call of parse_tags
    tags_result,    \* what the call returned
    conns,          \* the pooled connections and their run-time parameters
    tx_pc,          \* the statement each pool user is about to issue
    tx_conn,        \* the connection each pool user has checked out
    observed        \* the parameters each pool user's statements ran under

locals == <<sanitized_name, image_bytes, mime_type, tags, saved_path,
            tag_embedding, err, remove_result>>
store  == <<photos, next_id, clock>>
upload_vars == <<pc, locals, result, calls, errlog>>
search_locals == <<body, query_vec, limit, fallback_reason, fallback_tags>>
search_vars == <<search_pc, search_locals, search_result, search_calls, search_errlog>>
list_vars == <<list_pc, list_tags, list_params, list_result, list_calls, list_errlog>>
plain_vars == <<plain_pc, plain_body, plain_tags, plain_result, plain_calls, plain_errlog>>
read_vars == <<list_vars, plain_vars>>
call_vars == <<embed_inputs, embed_reply, embed_result, tags_input, tags_result>>
pool_vars == <<conns, tx_pc, tx_conn, observed>>
aux_vars == <<call_vars, pool_vars>>
vars   == <<upload_vars, search_vars, read_vars, disk, store, aux_vars>>

\* lines 27-60: the checks before the first await
ValidateUpload(payload) ==
    IF Trim(payload.file_name) = <<>>
    THEN Err(bad_request("file_name cannot be empty"))
    ELSE IF Trim(payload.image_base64) = <<>>
    THEN Err(bad_request("image_base64 cannot be empty"))
    ELSE LET name == sanitize_file_name(payload.file_name)
         IN  IF ~name.ok THEN name
             ELSE LET bytes == decode_image(payload.image_base64)
                      mime  == IF payload.mime_type # None
                               THEN payload.mime_type
                               ELSE infer_mime_type(name.value)
                  IN  IF ~bytes.ok THEN bytes
                      ELSE IF mime = None
                      THEN Err(bad_request("unknown file extension; provide mime_type"))
                      ELSE Ok([sanitized_name |-> name.value,
                               image_bytes    |-> bytes.value,
                               mime_type      |-> Unwrap(mime)])

\* a mutation of the check of lines 74-80: an empty tag list is let through
NoTagsIgnored(tag_list) == FALSE

\* lines 74-80: tags.is_empty()
NoTags(tag_list) == tag_list = <<>>

\* lines 96-112: the vector bound to the insert, from the outcome of the
\* bounded embedding call
UploadEmbedding(tag_list, outcome) ==
    LET tag_text == Join(tag_list, <<",", " ">>)
        emb      == embed_texts(<<tag_text>>, outcome.reply)
    IN  IF outcome.elapsed THEN None
        ELSE IF ~emb.ok THEN None
        ELSE IF emb.value = <<>> THEN None
        ELSE Some(emb.value[1])

\* no request has started
RequestsIdle ==
    /\ pc             = [r \in Uploads |-> "start"]
    /\ sanitized_name = [r \in Uploads |-> <<>>]
    /\ image_bytes    = [r \in Uploads |-> <<>>]
    /\ mime_type      = [r \in Uploads |-> ""]
    /\ tags           = [r \in Uploads |-> <<>>]
    /\ saved_path     = [r \in Uploads |-> <<>>]
    /\ tag_embedding  = [r \in Uploads |-> None]
    /\ err            = [r \in Uploads |-> None]
    /\ remove_result  = [r \in Uploads |-> None]
    /\ result         = [r \in Uploads |-> None]
    /\ calls          = [r \in Uploads |-> <<>>]
    /\ errlog         = [r \in Uploads |-> None]
    /\ search_pc       = [q \in Searches |-> "start"]
    /\ body            = [q \in Searches |-> None]
    /\ query_vec       = [q \in Searches |-> None]
    /\ limit           = [q \in Searches |-> 0]
    /\ fallback_reason = [q \in Searches |-> None]
    /\ fallback_tags   = [q \in Searches |-> None]
    /\ search_result   = [q \in Searches |-> None]
    /\ search_calls    = [q \in Searches |-> <<>>]
    /\ search_errlog   = [q \in Searches |-> None]
    /\ list_pc     = [l \in Reads |-> "start"]
    /\ list_tags   = [l \in Reads |-> <<>>]
    /\ list_params = [l \in Reads |-> None]
    /\ list_result = [l \in Reads |-> None]
    /\ list_calls  = [l \in Reads |-> <<>>]
    /\ list_errlog = [l \in Reads |-> None]
    /\ plain_pc     = [p \in Reads |-> "start"]
    /\ plain_body   = [p \in Reads |-> None]
    /\ plain_tags   = [p \in Reads |-> <<>>]
    /\ plain_result = [p \in Reads |-> None]
    /\ plain_calls  = [p \in Reads |-> <<>>]
    /\ plain_errlog = [p \in Reads |-> None]

\* no call is under way outside the handlers
CallsIdle ==
    /\ embed_inputs = <<>>
    /\ embed_reply  = None
    /\ embed_result = None
    /\ tags_input   = None
    /\ tags_result  = None

\* the pool is not in use
PoolIdle ==
    /\ conns    = <<>>
    /\ tx_pc    = <<>>
    /\ tx_conn  = <<>>
    /\ observed = <<>>

Init ==
    /\ RequestsIdle
    /\ disk           = <<>>
    /\ photos         = <<>>
    /\ next_id        = 1
    /\ clock          = 0
    /\ CallsIdle
    /\ PoolIdle

\* the handler returns: the response goes out and its locals are dropped
Finish(r, response) ==
    /\ pc' = [pc EXCEPT ![r] = "done"]
    /\ result' = [result EXCEPT ![r] = Some(response)]
    /\ sanitized_name' = [sanitized_name EXCEPT ![r] = <<>>]
    /\ image_bytes' = [image_bytes EXCEPT ![r] = <<>>]
    /\ mime_type' = [mime_type EXCEPT ![r] = ""]
    /\ tags' = [tags EXCEPT ![r] = <<>>]
    /\ saved_path' = [saved_path EXCEPT ![r] = <<>>]
    /\ tag_embedding' = [tag_embedding EXCEPT ![r] = None]
    /\ err' = [err EXCEPT ![r] = None]

\* the handler issues a call and is suspended until it returns
Await(r, call) ==
    /\ pc' = [pc EXCEPT ![r] = call]
    /\ calls' = [calls EXCEPT ![r] = Append(@, call)]
    /\ UNCHANGED result

\* error!(error = ?err, ..) of the From conversions of errors.rs
LogError(r, line, error) ==
    errlog' = [errlog EXCEPT ![r] = Some([line |-> line, error |-> error])]

\* lines 27-71: the request arrives, is validated and the tagging call issued
UploadValidate(r, payload) ==
    /\ pc[r] = "start"
    /\ UNCHANGED <<search_vars, read_vars, aux_vars>>
    /\ LET v == ValidateUpload(payload)
       IN  IF ~v.ok
           THEN /\ Finish(r, v.error)
                /\ UNCHANGED <<remove_result, calls, errlog, disk, store>>
           ELSE /\ sanitized_name' = [sanitized_name EXCEPT ![r] = v.value.sanitized_name]
                /\ image_bytes' = [image_bytes EXCEPT ![r] = v.value.image_bytes]
                /\ mime_type' = [mime_type EXCEPT ![r] = v.value.mime_type]
                /\ Await(r, "tag_image")
                /\ UNCHANGED <<tags, saved_path, tag_embedding, err, remove_result,
                               errlog, disk, store>>

\* lines 68-88: the tagging call returns
TagImageReturns(r, reply) ==
    /\ pc[r] = "tag_image"
    /\ UNCHANGED <<search_vars, read_vars, aux_vars>>
    /\ LET t == tag_image(reply)
       IN  IF ~t.ok
           THEN /\ Finish(r, AppErrorFrom(t.error))
                /\ LogError(r, "internal error", t.error)
                /\ UNCHANGED <<remove_result, calls, disk, store>>
           ELSE IF NoTags(t.value)
           THEN /\ Finish(r, bad_request("tagging service returned no tags"))
                /\ UNCHANGED <<remove_result, calls, errlog, disk, store>>
           ELSE /\ tags' = [tags EXCEPT ![r] = t.value]
                /\ Await(r, "save_image")
                /\ UNCHANGED <<sanitized_name, image_bytes, mime_type, saved_path,
                               tag_embedding, err, remove_result, errlog, disk, store>>

\* SaveImageReturns that deletes what a failed write may have left behind
SaveImageReturnsCleaning(r, outcome, written) ==
    /\ pc[r] = "save_image"
    /\ UNCHANGED <<search_vars, read_vars, aux_vars>>
    /\ LET s == save_image(disk, sanitized_name[r], image_bytes[r], r, outcome, written)
       IN  /\ disk' = s.disk
           /\ IF ~s.result.ok
              THEN /\ err' = [err EXCEPT ![r] = Some(s.result.error)]
                   /\ Await(r, "remove_image")
                   /\ UNCHANGED <<sanitized_name, image_bytes, mime_type, tags,
                                  saved_path, tag_embedding, remove_result, errlog, store>>
              ELSE /\ saved_path' = [saved_path EXCEPT ![r] = s.result.value]
                   /\ Await(r, "embed_texts")
                   /\ UNCHANGED <<sanitized_name, image_bytes, mime_type, tags,
                                  tag_embedding, err, remove_result, errlog, store>>

\* lines 88-101: save_image returns
SaveImageReturns(r, outcome, written) ==
    /\ pc[r] = "save_image"
    /\ UNCHANGED <<search_vars, read_vars, aux_vars>>
    /\ LET s == save_image(disk, sanitized_name[r], image_bytes[r], r, outcome, written)
       IN  /\ disk' = s.disk
           /\ IF ~s.result.ok
              THEN /\ Finish(r, AppErrorFrom(s.result.error))
                   /\ LogError(r, "internal error", s.result.error)
                   /\ UNCHANGED <<remove_result, calls, store>>
              ELSE /\ saved_path' = [saved_path EXCEPT ![r] = s.result.value]
                   /\ Await(r, "embed_texts")
                   /\ UNCHANGED <<sanitized_name, image_bytes, mime_type, tags,
                                  tag_embedding, err, remove_result, errlog, store>>

\* lines 97-121: the bounded embedding call returns or its timer elapses
EmbedReturns(r, outcome) ==
    /\ pc[r] = "embed_texts"
    /\ UNCHANGED <<search_vars, read_vars, aux_vars>>
    /\ tag_embedding' = [tag_embedding EXCEPT ![r] = UploadEmbedding(tags[r], outcome)]
    /\ Await(r, "add_photo")
    /\ UNCHANGED <<sanitized_name, image_bytes, mime_type, tags, saved_path, err,
                   remove_result, errlog, disk, store>>

\* AddPhotoReturns whose failed insert has left its row behind all the same
AddPhotoReturnsRowKept(r, db, ts) ==
    /\ pc[r] = "add_photo"
    /\ UNCHANGED <<search_vars, read_vars, aux_vars>>
    /\ LET a == add_photo(db, next_id, ts, sanitized_name[r], saved_path[r],
                          tags[r], tag_embedding[r])
           kept == add_photo(TRUE, next_id, ts, sanitized_name[r], saved_path[r],
                             tags[r], None)
       IN  IF a.ok
           THEN /\ photos' = Append(photos, a.value)
                /\ next_id' = next_id + 1
                /\ clock' = ts
                /\ Finish(r, [status |-> OK, photo |-> Photo(a.value)])
                /\ UNCHANGED <<remove_result, calls, errlog, disk>>
           ELSE /\ err' = [err EXCEPT ![r] = Some(a.error)]
                /\ photos' = Append(photos, kept.value)
                /\ next_id' = next_id + 1
                /\ clock' = ts
                /\ Await(r, "remove_image")
                /\ UNCHANGED <<sanitized_name, image_bytes, mime_type, tags, saved_path,
                               tag_embedding, remove_result, errlog, disk>>

\* lines 114-136: the insert returns
AddPhotoReturns(r, db, ts) ==
    /\ pc[r] = "add_photo"
    /\ UNCHANGED <<search_vars, read_vars, aux_vars>>
    /\ LET a == add_photo(db, next_id, ts, sanitized_name[r], saved_path[r],
                          tags[r], tag_embedding[r])
       IN  IF a.ok
           THEN /\ photos' = Append(photos, a.value)
                /\ next_id' = next_id + 1
                /\ clock' = ts
                /\ Finish(r, [status |-> OK, photo |-> Photo(a.value)])
                /\ UNCHANGED <<remove_result, calls, errlog, disk>>
           ELSE /\ err' = [err EXCEPT ![r] = Some(a.error)]
                /\ Await(r, "remove_image")
                /\ UNCHANGED <<sanitized_name, image_bytes, mime_type, tags, saved_path,
                               tag_embedding, remove_result, errlog, disk, store>>

\* lines 125-126: the compensating delete returns and the error is surfaced
RemoveImageReturns(r, fails) ==
    /\ pc[r] = "remove_image"
    /\ UNCHANGED <<search_vars, read_vars, aux_vars>>
    /\ LET rm == remove_image(disk, saved_path[r], fails)
       IN  /\ disk' = rm.disk
           /\ remove_result' = [remove_result EXCEPT ![r] = Some(rm.result)]
    /\ Finish(r, AppErrorFrom(Unwrap(err[r])))
    /\ LogError(r, "database error", Unwrap(err[r]))
    /\ UNCHANGED <<calls, store>>

\* the uploads alone, in any interleaving
Next ==
    \E r \in Uploads :
        \/ \E payload \in UploadPayloads : UploadValidate(r, payload)
        \/ \E reply \in ChatReplies : TagImageReturns(r, reply)
        \/ \E outcome \in SaveOutcomes :
              \E written \in 0..(IF outcome = "write_failed"
                                 THEN Len(image_bytes[r]) - 1 ELSE 0) :
                  SaveImageReturns(r, outcome, written)
        \/ \E outcome \in EmbedOutcomes : EmbedReturns(r, outcome)
        \/ \E db \in BOOLEAN : \E ts \in {clock, clock + 1} : AddPhotoReturns(r, db, ts)
        \/ \E fails \in BOOLEAN : RemoveImageReturns(r, fails)

Spec == Init /\ [][Next]_vars

(***************************************************************************)
(* routes/images.rs: semantic_search_images                                *)
(***************************************************************************)
\* lines 269-274 without the lower clamp
ClampLimitNoFloor(requested_limit) ==
    IF requested_limit > 200 THEN 200 ELSE requested_limit

\* lines 269-274: the limit handed to the vector search
ClampLimit(requested_limit) ==
    IF requested_limit < 1 THEN 1
    ELSE IF requested_limit > 200 THEN 200
    ELSE requested_limit

\* VectorSearchResponse with tags built by unwrap_or_default: an absent tag
\* list goes out as an empty one
VectorSearchResponseEmptyTags(query, found, tag_list) ==
    [status |-> OK, query |-> query, photos |-> found,
     tags |-> IF tag_list = None THEN Some(<<>>) ELSE tag_list]

\* VectorSearchResponse { query, photos, tags }
VectorSearchResponse(query, found, tag_list) ==
    [status |-> OK, query |-> query, photos |-> found, tags |-> tag_list]

\* the handler returns: the response goes out and its locals are dropped
SearchFinish(q, response) ==
    /\ search_pc' = [search_pc EXCEPT ![q] = "done"]
    /\ search_result' = [search_result EXCEPT ![q] = Some(response)]
    /\ body' = [body EXCEPT ![q] = None]
    /\ query_vec' = [query_vec EXCEPT ![q] = None]
    /\ limit' = [limit EXCEPT ![q] = 0]
    /\ fallback_reason' = [fallback_reason EXCEPT ![q] = None]
    /\ fallback_tags' = [fallback_tags EXCEPT ![q] = None]

\* the handler issues a call and is suspended until it returns
SearchAwait(q, call) ==
    /\ search_pc' = [search_pc EXCEPT ![q] = call]
    /\ search_calls' = [search_calls EXCEPT ![q] = Append(@, call)]
    /\ UNCHANGED search_result

\* a mutation of the check of lines 223-227: the query is not trimmed
EmptyQueryUntrimmed(query) == query = <<>>

\* lines 223-227: trimmed_query.is_empty()
EmptyQuery(query) == Trim(query) = <<>>

\* Option::get_or_insert_with
GetOrInsert(option, value) == IF option = None THEN Some(value) ELSE option

\* lines 241-264, with its arm for a reply left out: the vectors are dropped
SearchEmbeddingsDropped(queries, outcome) == <<>>

\* lines 241-264: the vectors the match on the bounded embedding call yields
SearchEmbeddings(queries, outcome) ==
    LET emb == embed_texts(queries, outcome.reply)
    IN  IF outcome.elapsed \/ ~emb.ok THEN <<>> ELSE emb.value

\* lines 305-331 with unwrap_or_default in place of the match: a failed or
\* late tagging call yields an empty tag list
FallbackTagsDefaulted(outcome) ==
    LET t == tags_from_query(outcome.reply)
    IN  IF outcome.elapsed \/ ~t.ok THEN Some(<<>>) ELSE Some(t.value)

\* lines 305-331: the Option the match on the bounded tagging call yields
FallbackTags(outcome) ==
    LET t == tags_from_query(outcome.reply)
    IN  IF outcome.elapsed \/ ~t.ok THEN None ELSE Some(t.value)

\* lines 333-343 without the is_empty() arm
FallbackQueriesStoreAlways(tag_option) == tag_option # None

\* lines 333-343: whether the fallback runs the tag-overlap query
FallbackQueriesStore(tag_option) == tag_option # None /\ Unwrap(tag_option) # <<>>

\* lines 223-241: the request arrives and the embedding call is issued
SemanticSearchStart(q, request) ==
    /\ search_pc[q] = "start"
    /\ UNCHANGED <<upload_vars, disk, store, read_vars, aux_vars>>
    /\ IF EmptyQuery(request.query)
       THEN /\ SearchFinish(q, bad_request("query cannot be empty"))
            /\ UNCHANGED <<search_calls, search_errlog>>
       ELSE /\ body' = [body EXCEPT ![q] = Some(request)]
            /\ SearchAwait(q, "embed_texts")
            /\ UNCHANGED <<query_vec, limit, fallback_reason, fallback_tags,
                           search_errlog>>

\* lines 241-305: the bounded embedding call returns or its timer elapses
SearchEmbedReturns(q, outcome) ==
    /\ search_pc[q] = "embed_texts"
    /\ UNCHANGED <<upload_vars, disk, store, read_vars, aux_vars>>
    /\ LET request    == Unwrap(body[q])
           emb        == embed_texts(<<Trim(request.query)>>, outcome.reply)
           embeddings == SearchEmbeddings(<<Trim(request.query)>>, outcome)
           reason     == IF outcome.elapsed THEN Some("embedding request timed out")
                         ELSE IF ~emb.ok THEN Some("embedding request failed")
                         ELSE IF emb.value = <<>>
                         THEN Some("embedding service returned no vectors")
                         ELSE None
       IN  /\ fallback_reason' = [fallback_reason EXCEPT ![q] = reason]
           /\ IF embeddings # <<>>
              THEN /\ query_vec' = [query_vec EXCEPT ![q] = Some(embeddings[1])]
                   /\ limit' = [limit EXCEPT ![q] =
                                   ClampLimit(IF request.limit = None THEN 24
                                              ELSE Unwrap(request.limit))]
                   /\ SearchAwait(q, "search_by_embedding")
              ELSE /\ SearchAwait(q, "tags_from_query")
                   /\ UNCHANGED <<query_vec, limit>>
    /\ UNCHANGED <<body, fallback_tags, search_errlog>>

\* SearchByEmbeddingReturns that treats a failed vector search as it treats
\* an empty one
SearchByEmbeddingReturnsDegrading(q, db, found) ==
    /\ search_pc[q] = "search_by_embedding"
    /\ UNCHANGED <<upload_vars, disk, store, read_vars, aux_vars>>
    /\ IF ~db \/ ~DistanceDefined(photos, Unwrap(query_vec[q]))
       THEN /\ found = <<>>
            /\ fallback_reason' = [fallback_reason EXCEPT ![q] =
                   GetOrInsert(@, "vector search failed")]
            /\ SearchAwait(q, "tags_from_query")
            /\ UNCHANGED <<body, query_vec, limit, fallback_tags, search_errlog>>
       ELSE /\ found \in search_by_embedding(photos, Unwrap(query_vec[q]), limit[q],
                                             Unwrap(body[q]).max_distance)
            /\ IF found # <<>>
               THEN /\ SearchFinish(q, VectorSearchResponse(Unwrap(body[q]).query,
                                                            found, None))
                    /\ UNCHANGED <<search_calls, search_errlog>>
               ELSE /\ fallback_reason' = [fallback_reason EXCEPT ![q] =
                           GetOrInsert(@, "vector search returned no results")]
                    /\ SearchAwait(q, "tags_from_query")
                    /\ UNCHANGED <<body, query_vec, limit, fallback_tags, search_errlog>>

\* lines 279-305: the vector search returns
SearchByEmbeddingReturns(q, db, found) ==
    /\ search_pc[q] = "search_by_embedding"
    /\ UNCHANGED <<upload_vars, disk, store, read_vars, aux_vars>>
    /\ IF ~db \/ ~DistanceDefined(photos, Unwrap(query_vec[q]))
       THEN /\ found = <<>>
            /\ SearchFinish(q, AppErrorFrom("sqlx"))
            /\ search_errlog' = [search_errlog EXCEPT ![q] =
                                    Some([line |-> "database error",
                                          error |-> IF db THEN "Database" ELSE "Io"])]
            /\ UNCHANGED search_calls
       ELSE /\ found \in search_by_embedding(photos, Unwrap(query_vec[q]), limit[q],
                                             Unwrap(body[q]).max_distance)
            /\ IF found # <<>>
               THEN /\ SearchFinish(q, VectorSearchResponse(Unwrap(body[q]).query,
                                                            found, None))
                    /\ UNCHANGED <<search_calls, search_errlog>>
               ELSE /\ fallback_reason' = [fallback_reason EXCEPT ![q] =
                           GetOrInsert(@, "vector search returned no results")]
                    /\ SearchAwait(q, "tags_from_query")
                    /\ UNCHANGED <<body, query_vec, limit, fallback_tags, search_errlog>>

\* FallbackTagsReturns that issues the tagging call a second time when the
\* first one failed or timed out
FallbackTagsRetrying(q, outcome) ==
    /\ search_pc[q] = "tags_from_query"
    /\ UNCHANGED <<upload_vars, disk, store, read_vars, aux_vars>>
    /\ LET tags_ == FallbackTags(outcome)
       IN  IF tags_ = None /\ Len(search_calls[q]) < 4
           THEN /\ SearchAwait(q, "tags_from_query")
                /\ UNCHANGED <<body, query_vec, limit, fallback_reason, fallback_tags,
                               search_errlog>>
           ELSE IF FallbackQueriesStore(tags_)
           THEN /\ fallback_tags' = [fallback_tags EXCEPT ![q] = tags_]
                /\ SearchAwait(q, "search_by_tags")
                /\ UNCHANGED <<body, query_vec, limit, fallback_reason, search_errlog>>
           ELSE /\ SearchFinish(q, VectorSearchResponse(Unwrap(body[q]).query,
                                                        <<>>, tags_))
                /\ UNCHANGED <<search_calls, search_errlog>>

\* lines 305-343: the bounded fallback tagging call returns or its timer elapses
FallbackTagsReturns(q, outcome) ==
    /\ search_pc[q] = "tags_from_query"
    /\ UNCHANGED <<upload_vars, disk, store, read_vars, aux_vars>>
    /\ LET t    == tags_from_query(outcome.reply)
           tags_ == FallbackTags(outcome)
           reason == IF outcome.elapsed THEN "fallback tagging timed out"
                     ELSE IF ~t.ok THEN "fallback tagging failed"
                     ELSE "fallback tagging returned no tags"
       IN  IF FallbackQueriesStore(tags_)
           THEN /\ fallback_tags' = [fallback_tags EXCEPT ![q] = tags_]
                /\ SearchAwait(q, "search_by_tags")
                /\ UNCHANGED <<body, query_vec, limit, fallback_reason, search_errlog>>
           ELSE /\ SearchFinish(q, VectorSearchResponse(Unwrap(body[q]).query,
                                                        <<>>, tags_))
                /\ UNCHANGED <<search_calls, search_errlog>>

\* lines 337-354: the tag-overlap query of the fallback returns
SearchByTagsReturns(q, db, found) ==
    /\ search_pc[q] = "search_by_tags"
    /\ UNCHANGED <<upload_vars, disk, store, read_vars, aux_vars>>
    /\ IF ~db
       THEN /\ found = <<>>
            /\ SearchFinish(q, AppErrorFrom("sqlx"))
            /\ search_errlog' = [search_errlog EXCEPT ![q] =
                                    Some([line |-> "database error", error |-> "Io"])]
            /\ UNCHANGED search_calls
       ELSE /\ found \in search_by_tags(photos, Unwrap(fallback_tags[q]))
            /\ SearchFinish(q, VectorSearchResponse(Unwrap(body[q]).query, found,
                                                    fallback_tags[q]))
            /\ UNCHANGED <<search_calls, search_errlog>>

\* every list of photos a query of the store can return
QueryResults ==
    UNION { search_by_tags(photos, filter) :
              filter \in { Unwrap(fallback_tags[q]) :
                             q \in { x \in Searches : fallback_tags[x] # None } } }
    \cup UNION { search_by_embedding(photos, Unwrap(query_vec[q]), limit[q],
                                     Unwrap(body[q]).max_distance) :
                   q \in { x \in Searches : query_vec[x] # None } }
    \cup { <<>> }

\* the searches alone, over a table that earlier uploads produced
NextSearch ==
    \E q \in Searches :
        \/ \E request \in SearchBodies : SemanticSearchStart(q, request)
        \/ \E outcome \in QueryEmbedOutcomes : SearchEmbedReturns(q, outcome)
        \/ /\ search_pc[q] = "search_by_embedding"
           /\ \E db \in BOOLEAN : \E found \in QueryResults :
                 SearchByEmbeddingReturns(q, db, found)
        \/ \E outcome \in ChatOutcomes : FallbackTagsReturns(q, outcome)
        \/ /\ search_pc[q] = "search_by_tags"
           /\ \E db \in BOOLEAN : \E found \in QueryResults :
                 SearchByTagsReturns(q, db, found)

InitSearch ==
    /\ RequestsIdle
    /\ photos         \in SearchStores
    /\ disk           = DiskOf(photos)
    /\ next_id        = Len(photos) + 1
    /\ clock          = 1
    /\ CallsIdle
    /\ PoolIdle

SpecSearch == InitSearch /\ [][NextSearch]_vars

(***************************************************************************)
(* routes/images.rs: list_images                                           *)
(***************************************************************************)
\* PhotosResponse { photos }
PhotosResponse(found) == [status |-> OK, photos |-> found]

\* the handler returns: the response goes out and its locals are dropped
ListFinish(l, response) ==
    /\ list_pc' = [list_pc EXCEPT ![l] = "done"]
    /\ list_result' = [list_result EXCEPT ![l] = Some(response)]
    /\ list_tags' = [list_tags EXCEPT ![l] = <<>>]
    /\ list_params' = [list_params EXCEPT ![l] = None]

\* lines 143-172: the request arrives and the store query is issued
ListImagesStart(l, params) ==
    /\ list_pc[l] = "start"
    /\ UNCHANGED <<upload_vars, search_vars, plain_vars, disk, store, aux_vars>>
    /\ LET parsed == IF params.tags = None THEN <<>>
                     ELSE parse_tags(Unwrap(params.tags))
           call   == IF parsed = <<>> THEN "list_all" ELSE "search_by_tags"
       IN  /\ list_params' = [list_params EXCEPT ![l] = Some(params)]
           /\ list_tags' = [list_tags EXCEPT ![l] = parsed]
           /\ list_pc' = [list_pc EXCEPT ![l] = call]
           /\ list_calls' = [list_calls EXCEPT ![l] = Append(@, call)]
    /\ UNCHANGED <<list_result, list_errlog>>

\* lines 146-175: the store query returns
ListQueryReturns(l, db, found) ==
    /\ list_pc[l] \in {"list_all", "search_by_tags"}
    /\ UNCHANGED <<upload_vars, search_vars, plain_vars, disk, store, aux_vars>>
    /\ UNCHANGED list_calls
    /\ IF ~db
       THEN /\ found = <<>>
            /\ ListFinish(l, AppErrorFrom("sqlx"))
            /\ list_errlog' = [list_errlog EXCEPT ![l] =
                                  Some([line |-> "database error", error |-> "Io"])]
       ELSE /\ found \in IF list_pc[l] = "list_all" THEN list_all(photos)
                         ELSE search_by_tags(photos, list_tags[l])
            /\ ListFinish(l, PhotosResponse(found))
            /\ UNCHANGED list_errlog

(***************************************************************************)
(* routes/images.rs: search_images                                         *)
(***************************************************************************)
\* SearchResponse { query, tags, photos }
SearchResponse(query, tag_list, found) ==
    [status |-> OK, query |-> query, tags |-> tag_list, photos |-> found]

\* the handler returns: the response goes out and its locals are dropped
PlainFinish(p, response) ==
    /\ plain_pc' = [plain_pc EXCEPT ![p] = "done"]
    /\ plain_result' = [plain_result EXCEPT ![p] = Some(response)]
    /\ plain_body' = [plain_body EXCEPT ![p] = None]
    /\ plain_tags' = [plain_tags EXCEPT ![p] = <<>>]

\* the handler issues a call and is suspended until it returns
PlainAwait(p, call) ==
    /\ plain_pc' = [plain_pc EXCEPT ![p] = call]
    /\ plain_calls' = [plain_calls EXCEPT ![p] = Append(@, call)]
    /\ UNCHANGED plain_result

\* lines 198-204 without the is_empty() arm: the store is always queried
PlainQueriesStoreAlways(tag_list) == TRUE

\* lines 198-204: whether search_images runs the tag-overlap query
PlainQueriesStore(tag_list) == tag_list # <<>>

\* lines 182-196: the request arrives and the tagging call is issued
SearchImagesStart(p, request) ==
    /\ plain_pc[p] = "start"
    /\ UNCHANGED <<upload_vars, search_vars, list_vars, disk, store, aux_vars>>
    /\ IF Trim(request.query) = <<>>
       THEN /\ PlainFinish(p, bad_request("query cannot be empty"))
            /\ UNCHANGED <<plain_calls, plain_errlog>>
       ELSE /\ plain_body' = [plain_body EXCEPT ![p] = Some(request)]
            /\ PlainAwait(p, "tags_from_query")
            /\ UNCHANGED <<plain_tags, plain_errlog>>

\* SearchImagesTagsReturn that answers a failed tagging call as the fallback
\* of the semantic search does, with no tags and no photos
SearchImagesTagsReturnDegrading(p, reply) ==
    /\ plain_pc[p] = "tags_from_query"
    /\ UNCHANGED <<upload_vars, search_vars, list_vars, disk, store, aux_vars>>
    /\ LET t == tags_from_query(reply)
           tag_list == IF t.ok THEN t.value ELSE <<>>
       IN  IF PlainQueriesStore(tag_list)
           THEN /\ plain_tags' = [plain_tags EXCEPT ![p] = tag_list]
                /\ PlainAwait(p, "search_by_tags")
                /\ UNCHANGED <<plain_body, plain_errlog>>
           ELSE /\ PlainFinish(p, SearchResponse(Unwrap(plain_body[p]).query,
                                                 tag_list, <<>>))
                /\ UNCHANGED <<plain_calls, plain_errlog>>

\* lines 192-216: the tagging call returns
SearchImagesTagsReturn(p, reply) ==
    /\ plain_pc[p] = "tags_from_query"
    /\ UNCHANGED <<upload_vars, search_vars, list_vars, disk, store, aux_vars>>
    /\ LET t == tags_from_query(reply)
       IN  IF ~t.ok
           THEN /\ PlainFinish(p, AppErrorFrom("anyhow"))
                /\ plain_errlog' = [plain_errlog EXCEPT ![p] =
                                       Some([line |-> "internal error", error |-> t.error])]
                /\ UNCHANGED plain_calls
           ELSE IF PlainQueriesStore(t.value)
           THEN /\ plain_tags' = [plain_tags EXCEPT ![p] = t.value]
                /\ PlainAwait(p, "search_by_tags")
                /\ UNCHANGED <<plain_body, plain_errlog>>
           ELSE /\ PlainFinish(p, SearchResponse(Unwrap(plain_body[p]).query,
                                                 t.value, <<>>))
                /\ UNCHANGED <<plain_calls, plain_errlog>>

\* lines 201-216: the tag-overlap query returns
SearchImagesByTagsReturns(p, db, found) ==
    /\ plain_pc[p] = "search_by_tags"
    /\ UNCHANGED <<upload_vars, search_vars, list_vars, disk, store, aux_vars>>
    /\ UNCHANGED plain_calls
    /\ IF ~db
       THEN /\ found = <<>>
            /\ PlainFinish(p, AppErrorFrom("sqlx"))
            /\ plain_errlog' = [plain_errlog EXCEPT ![p] =
                                   Some([line |-> "database error", error |-> "Io"])]
       ELSE /\ found \in search_by_tags(photos, plain_tags[p])
            /\ PlainFinish(p, SearchResponse(Unwrap(plain_body[p]).query,
                                             plain_tags[p], found))
            /\ UNCHANGED plain_errlog

\* every list of photos a query of list_images or search_images can return
ReadResults ==
    list_all(photos)
    \cup UNION { search_by_tags(photos, list_tags[l]) : l \in Reads }
    \cup UNION { search_by_tags(photos, plain_tags[p]) : p \in Reads }
    \cup { <<>> }

\* the list requests and tag searches alone, over a table that earlier
\* uploads produced
NextRead ==
    \/ \E l \in Reads :
          \/ \E params \in ListParams : ListImagesStart(l, params)
          \/ /\ list_pc[l] \in {"list_all", "search_by_tags"}
             /\ \E db \in BOOLEAN : \E found \in ReadResults :
                   ListQueryReturns(l, db, found)
    \/ \E p \in Reads :
          \/ \E request \in SearchRequests : SearchImagesStart(p, request)
          \/ \E reply \in ChatReplies : SearchImagesTagsReturn(p, reply)
          \/ /\ plain_pc[p] = "search_by_tags"
             /\ \E db \in BOOLEAN : \E found \in ReadResults :
                   SearchImagesByTagsReturns(p, db, found)

SpecRead == InitSearch /\ [][NextRead]_vars

(***************************************************************************)
(* Properties of the upload pipeline.                                      *)
(***************************************************************************)
Range(seq) == {seq[i] : i \in 1..Len(seq)}

\* the step in which a request resumes from the await `at`
UploadLeaves(r, at) == pc[r] = at /\ pc'[r] # at
SearchLeaves(q, at) == search_pc[q] = at /\ search_pc'[q] # at
PlainLeaves(p, at) == plain_pc[p] = at /\ plain_pc'[p] # at
ListLeaves(l) == list_pc[l] \in {"list_all", "search_by_tags"} /\ list_pc'[l] = "done"

Finished(r) == pc[r] = "done"
Status(r) == Unwrap(result[r]).status
Succeeded(r) == Finished(r) /\ Status(r) = OK

\* some file on disk holds bytes that upload r wrote
FileWrittenBy(r) == \E path \in DOMAIN disk : disk[path].writer = r

\* upload r ended after its insert was refused
InsertFailed(r) == Finished(r) /\ "add_photo" \in Range(calls[r]) /\ Status(r) # OK

\* every row is the photo some successful upload returned
EveryRowFromSuccess ==
    \A i \in 1..Len(photos) :
        \E r \in Uploads : Succeeded(r) /\ Unwrap(result[r]).photo = Photo(photos[i])

\* C1: in every reachable state, the bytes at the storage path of every
\* Photo record exist on disk, except while some upload is between its
\* failed insert and its compensating delete.
C1_StoragePathHasBytes ==
    \A i \in 1..Len(photos) :
        \/ FileExists(disk, photos[i].file_path)
        \/ \E r \in Uploads : pc[r] = "remove_image"

\* C2: every record of the store has at least one tag, whatever the tagging
\* service replied.
C2_NoPhotoWithoutTags == \A i \in 1..Len(photos) : photos[i].tags # <<>>

\* C2 witness: a record was stored and another upload got zero tags
C2_Witness ==
    /\ photos # <<>>
    /\ \E r \in Uploads :
          /\ Finished(r)
          /\ result[r] = Some(bad_request("tagging service returned no tags"))

\* C3 (as claimed): an upload whose insert failed issued the compensating
\* delete, ended with the store's error, left no row, and after it finished
\* the bytes it wrote are absent from disk.
C3_CompensationRemovesBytes ==
    \A r \in Uploads :
        InsertFailed(r) =>
            /\ "remove_image" \in Range(calls[r])
            /\ result[r] = Some(internal("internal server error"))
            /\ errlog[r] # None /\ Unwrap(errlog[r]).line = "database error"
            /\ EveryRowFromSuccess
            /\ ~FileWrittenBy(r)

\* C3 (amended): an upload whose insert failed issued the compensating
\* delete, ended with the store's error and left no row; the bytes it wrote
\* are absent from disk after it finished unless the delete itself failed
\* (that failure is swallowed and the bytes stay).
C3_CompensationBestEffort ==
    \A r \in Uploads :
        InsertFailed(r) =>
            /\ "remove_image" \in Range(calls[r])
            /\ result[r] = Some(internal("internal server error"))
            /\ errlog[r] # None /\ Unwrap(errlog[r]).line = "database error"
            /\ EveryRowFromSuccess
            /\ remove_result[r] # None
            /\ (Unwrap(remove_result[r]) # "failed" => ~FileWrittenBy(r))

\* C3 witness: an upload wrote its bytes, its insert failed and the delete
\* removed them
C3_Witness ==
    \E r \in Uploads :
        /\ InsertFailed(r)
        /\ "save_image" \in Range(calls[r])
        /\ remove_result[r] = Some("removed")
        /\ ~FileWrittenBy(r)

\* the requests the claim calls rejected by input validation
C4_Rejected(payload) ==
    \/ Trim(payload.file_name) = <<>>
    \/ Trim(payload.image_base64) = <<>>
    \/ PathFileName(Trim(payload.file_name)) = None
    \/ B64Decode(RemoveChars(payload.image_base64, {"\n", "\r"})) = None
    \/ /\ payload.mime_type = None
       /\ PathExtension(Trim(payload.file_name)) \notin
              {Some(ext) : ext \in { <<"p","n","g">>, <<"j","p","g">>,
                                      <<"j","p","e","g">>, <<"g","i","f">>,
                                      <<"b","m","p">> }}

\* C4: an upload rejected by input validation ends with a 400 response,
\* leaves the file store and the Photo Store unchanged and issues no call.
C4_ValidationRejects ==
    [][\A r \in Uploads : UploadLeaves(r, "start") =>
        \/ /\ pc'[r] = "done"
           /\ Unwrap(result'[r]).status = BAD_REQUEST
           /\ calls'[r] = <<>>
           /\ disk' = disk
           /\ photos' = photos
        \/ \A payload \in UploadPayloads :
              ~(C4_Rejected(payload) /\ UploadValidate(r, payload))]_vars

\* C4 witness: a malformed payload was rejected while the stores held data
C4_Witness ==
    /\ photos # <<>>
    /\ disk # <<>>
    /\ \E r \in Uploads :
          /\ Finished(r)
          /\ result[r] = Some(bad_request("image_base64 must be valid base64"))
          /\ calls[r] = <<>>

\* C5: when tagging succeeds with zero tags the upload ends with a 400
\* response, and at no point of the run were bytes of it on disk or a row of
\* it in the store (it never issued the write or the insert).
C5_NoTagsNothingPersisted ==
    [][\A r \in Uploads : UploadLeaves(r, "tag_image") =>
        \A reply \in ChatReplies :
          (tag_image(reply) = Ok(<<>>) /\ TagImageReturns(r, reply)) =>
              /\ ~FileWrittenBy(r)
              /\ pc'[r] = "done"
              /\ Unwrap(result'[r]).status = BAD_REQUEST
              /\ calls'[r] = <<"tag_image">>
              /\ disk' = disk
              /\ photos' = photos]_vars

\* C5 witness: an upload got zero tags while another one's data is stored
C5_Witness ==
    /\ photos # <<>>
    /\ \E r \in Uploads :
          /\ Finished(r)
          /\ result[r] = Some(bad_request("tagging service returned no tags"))
          /\ calls[r] = <<"tag_image">>
          /\ ~FileWrittenBy(r)

\* the replies the claim calls a failed tagging call
C6_Failed(reply) ==
    \/ ~reply.sent
    \/ reply.status >= 400
    \/ ~reply.json
    \/ reply.choices = <<>>
    \/ /\ reply.choices[1].kind = "Parts"
       /\ \A i \in 1..Len(reply.choices[1].parts) :
             \/ reply.choices[1].parts[i] = None
             \/ Trim(Unwrap(reply.choices[1].parts[i])) = <<>>

\* C6: when the image-tagging call fails the upload ends with a 500
\* response: no bytes are written, no embedding call is issued and no row
\* is inserted.
C6_TaggingFailureIsFatal ==
    [][\A r \in Uploads : UploadLeaves(r, "tag_image") =>
        \A reply \in ChatReplies :
          (C6_Failed(reply) /\ TagImageReturns(r, reply)) =>
              /\ pc'[r] = "done"
              /\ result'[r] = Some(internal("internal server error"))
              /\ errlog'[r] = Some([line  |-> "internal error",
                                    error |-> "LM Studio failed to tag image"])
              /\ calls'[r] = <<"tag_image">>
              /\ disk' = disk
              /\ photos' = photos]_vars

\* C6 witness: an upload ended on a failed tagging call
C6_Witness ==
    \E r \in Uploads :
        /\ Finished(r)
        /\ errlog[r] = Some([line  |-> "internal error",
                             error |-> "LM Studio failed to tag image"])
        /\ calls[r] = <<"tag_image">>

\* C7: the outcome of the embedding step never makes the upload fail: a
\* timeout or a failed call leads to an insert without a vector, and the
\* upload succeeds exactly when it would with no vector at all.
C7_EmbeddingNeverFatal ==
    [][\A r \in Uploads :
          /\ \A outcome \in EmbedOutcomes :
                ( /\ EmbedReturns(r, outcome)
                  /\ (outcome.elapsed \/ ~outcome.reply.sent \/ ~outcome.reply.json
                      \/ outcome.reply.status >= 400 \/ Len(outcome.reply.data) # 1) )
                => (tag_embedding'[r] = None /\ pc'[r] = "add_photo")
          /\ \A db \in BOOLEAN : \A ts \in {clock, clock + 1} :
                AddPhotoReturns(r, db, ts) =>
                    ( (pc'[r] = "done" /\ Unwrap(result'[r]).status = OK)
                      <=> add_photo(db, next_id, ts, sanitized_name[r], saved_path[r],
                                    tags[r], None).ok )]_vars

\* C8: every record that has an embedding has one of exactly 768
\* components, whatever vector length the embedding service returned.
C8_EmbeddingDimension ==
    \A i \in 1..Len(photos) :
        photos[i].tag_embedding # None
            => Unwrap(photos[i].tag_embedding).dim = EMBEDDING_DIM

\* C8 witness: a record with an embedding is stored and an upload whose
\* vector had another length was refused by the store
C8_Witness ==
    /\ \E i \in 1..Len(photos) : photos[i].tag_embedding # None
    /\ \E r \in Uploads :
          /\ Finished(r)
          /\ errlog[r] = Some([line |-> "database error", error |-> "Database"])

\* C9: whenever an upload returns success, its row and the bytes at that
\* row's storage path both exist at the moment it returns.
C9_SuccessMeansBytesAndRow ==
    [][\A r \in Uploads :
          (pc[r] # "done" /\ pc'[r] = "done" /\ Unwrap(result'[r]).status = OK) =>
              \E i \in 1..Len(photos') :
                  /\ Photo(photos'[i]) = Unwrap(result'[r]).photo
                  /\ FileExists(disk', photos'[i].file_path)]_vars

(***************************************************************************)
(* Properties of semantic search.                                          *)
(***************************************************************************)
\* C10: a semantic search whose query is empty or only whitespace ends with
\* a 400 response without issuing any call: not to the embedding service,
\* not to the tagging service and not to the Photo Store.
C10_EmptyQueryRejected ==
    [][\A q \in Searches : SearchLeaves(q, "start") =>
        \A request \in SearchBodies :
          ( /\ \A i \in 1..Len(request.query) : IsWhitespace(request.query[i])
            /\ SemanticSearchStart(q, request) ) =>
              /\ search_pc'[q] = "done"
              /\ search_result'[q] = Some(bad_request("query cannot be empty"))
              /\ search_calls'[q] = <<>>
              /\ photos' = photos]_vars

\* C10 witness: a search over a store that holds photos was rejected before
\* it issued any call
C10_Witness ==
    /\ photos # <<>>
    /\ \E q \in Searches :
          /\ search_pc[q] = "done"
          /\ search_result[q] = Some(bad_request("query cannot be empty"))
          /\ search_calls[q] = <<>>

\* the response with which search q has just completed
SearchResponded(q) == search_result[q] = None /\ search_result'[q] # None
SemanticResponse(q) == Unwrap(search_result'[q])

\* what tags_from_query makes of each reply of the tagging service
QueryTags == [reply \in ChatReplies |-> tags_from_query(reply)]

\* C11: vector search is executed if and only if the bounded embedding
\* attempt succeeded with at least one vector, and then with the first
\* vector; when the attempt yields no vector, fails or times out, the vector
\* search is skipped and the fallback tagging call is issued instead.
C11_VectorSearchIffEmbedded ==
    [][\A q \in Searches : SearchLeaves(q, "embed_texts") =>
        \A outcome \in QueryEmbedOutcomes :
          SearchEmbedReturns(q, outcome) =>
              LET emb == embed_texts(<<Trim(Unwrap(body[q]).query)>>, outcome.reply)
              IN  IF ~outcome.elapsed /\ emb.ok /\ emb.value # <<>>
                  THEN /\ search_pc'[q] = "search_by_embedding"
                       /\ query_vec'[q] = Some(emb.value[1])
                       /\ search_calls'[q] = <<"embed_texts", "search_by_embedding">>
                  ELSE /\ search_pc'[q] = "tags_from_query"
                       /\ query_vec'[q] = None
                       /\ search_calls'[q] = <<"embed_texts", "tags_from_query">>]_vars

\* C11 witness: a search whose embedding attempt succeeded is suspended at
\* the vector search, with the vector the service returned
C11_Witness ==
    \E q \in Searches :
        /\ search_pc[q] = "search_by_embedding"
        /\ query_vec[q] = Some(Vector(EMBEDDING_DIM, <<4, 3>>))
        /\ search_calls[q] = <<"embed_texts", "search_by_embedding">>

\* C12: when the vector search returns at least one photo, the request
\* completes at once with exactly that list and no tags field, and neither
\* the fallback tagging call nor the tag-overlap query is made.
C12_VectorHitsReturnAtOnce ==
    [][\A q \in Searches :
        SearchLeaves(q, "search_by_embedding") =>
          \A db \in BOOLEAN : \A found \in QueryResults :
          (found # <<>> /\ SearchByEmbeddingReturns(q, db, found)) =>
              /\ search_pc'[q] = "done"
              /\ search_result'[q] = Some([status |-> OK,
                                           query  |-> Unwrap(body[q]).query,
                                           photos |-> found,
                                           tags   |-> None])
              /\ search_calls'[q] = <<"embed_texts", "search_by_embedding">>]_vars

\* C12 witness: a search completed with two photos from the vector search
C12_Witness ==
    \E q \in Searches :
        /\ search_pc[q] = "done"
        /\ search_calls[q] = <<"embed_texts", "search_by_embedding">>
        /\ Unwrap(search_result[q]).status = OK
        /\ Len(Unwrap(search_result[q]).photos) = 2

\* C13: a successful semantic-search response carries the original query
\* text and a photo list, and its tags field is present exactly when the
\* fallback tagging call was executed for the request and returned
\* successfully (an empty list included).
C13_TagsIffFallbackSucceeded ==
    [][\A q \in Searches :
          /\ (SearchResponded(q) /\ SemanticResponse(q).status = OK) =>
                /\ SemanticResponse(q).query = Unwrap(body[q]).query
                /\ DOMAIN SemanticResponse(q).photos = 1..Len(SemanticResponse(q).photos)
                /\ search_pc[q] \in {"search_by_embedding", "tags_from_query",
                                     "search_by_tags"}
                /\ search_pc[q] = "search_by_embedding" =>
                      /\ SemanticResponse(q).tags = None
                      /\ "tags_from_query" \notin Range(search_calls[q])
                /\ search_pc[q] = "search_by_tags" =>
                      /\ SemanticResponse(q).tags # None
                      /\ SemanticResponse(q).tags = fallback_tags[q]
                /\ SearchLeaves(q, "tags_from_query") =>
                    \A outcome \in ChatOutcomes :
                      LET t == QueryTags[outcome.reply]
                      IN  \/ IF ~outcome.elapsed /\ t.ok
                             THEN SemanticResponse(q).tags = Some(t.value)
                             ELSE SemanticResponse(q).tags = None
                          \/ ~FallbackTagsReturns(q, outcome)
          \* the tag-overlap query is reached only from a tagging call that
          \* returned successfully
          /\ (search_pc[q] # "search_by_tags" /\ search_pc'[q] = "search_by_tags") =>
                /\ search_pc[q] = "tags_from_query"
                /\ \A outcome \in ChatOutcomes :
                      FallbackTagsReturns(q, outcome) =>
                          /\ ~outcome.elapsed
                          /\ QueryTags[outcome.reply].ok
                          /\ fallback_tags'[q] =
                                 Some(QueryTags[outcome.reply].value)]_vars

\* C13 witness: a search whose fallback tagging call returned tags completed
\* with those tags and the photos that carry them
C13_Witness ==
    \E q \in Searches :
        /\ search_pc[q] = "done"
        /\ search_calls[q] = <<"embed_texts", "tags_from_query", "search_by_tags">>
        /\ Unwrap(search_result[q]).status = OK
        /\ Unwrap(search_result[q]).tags = Some(<< <<"c","a","t">>, <<"s","u","n">> >>)
        /\ Unwrap(search_result[q]).photos # <<>>

\* C14: when the fallback tagging call succeeds with an empty tag list, the
\* response has tags = [] and no photos even when the store holds photos:
\* the tag-overlap query, which lists all photos for an empty filter, is not
\* run.
C14_EmptyFallbackTagsNoPhotos ==
    [][\A q \in Searches : SearchLeaves(q, "tags_from_query") =>
        \A outcome \in ChatOutcomes :
          ( /\ ~outcome.elapsed
            /\ QueryTags[outcome.reply] = Ok(<<>>)
            /\ FallbackTagsReturns(q, outcome) ) =>
              /\ search_pc'[q] = "done"
              /\ search_result'[q] = Some([status |-> OK,
                                           query  |-> Unwrap(body[q]).query,
                                           photos |-> <<>>,
                                           tags   |-> Some(<<>>)])
              /\ "search_by_tags" \notin Range(search_calls'[q])]_vars

\* C14 witness: over a store that holds photos, a search whose fallback
\* tagging returned no tags completed with tags = [] and no photos
C14_Witness ==
    /\ photos # <<>>
    /\ \E q \in Searches :
          /\ search_pc[q] = "done"
          /\ "tags_from_query" \in Range(search_calls[q])
          /\ Unwrap(search_result[q]).status = OK
          /\ Unwrap(search_result[q]).tags = Some(<<>>)
          /\ Unwrap(search_result[q]).photos = <<>>

\* C15: when the fallback tagging call fails or exceeds its timeout, the
\* request still completes successfully, with the tags field absent and an
\* empty photo list, and the store's tag-overlap query is not run.
C15_FallbackFailureDegrades ==
    [][\A q \in Searches : SearchLeaves(q, "tags_from_query") =>
        \/ /\ search_pc'[q] = "done"
           /\ search_result'[q] = Some([status |-> OK,
                                        query  |-> Unwrap(body[q]).query,
                                        photos |-> <<>>,
                                        tags   |-> None])
           /\ "search_by_tags" \notin Range(search_calls'[q])
           /\ photos' = photos
        \/ \A outcome \in ChatOutcomes :
              ~( /\ outcome.elapsed \/ ~QueryTags[outcome.reply].ok
                 /\ FallbackTagsReturns(q, outcome) )]_vars

\* C15 witness: over a store that holds photos, a search whose embedding and
\* fallback tagging both failed completed successfully with no tags field
C15_Witness ==
    /\ photos # <<>>
    /\ \E q \in Searches :
          /\ search_pc[q] = "done"
          /\ search_calls[q] = <<"embed_texts", "tags_from_query">>
          /\ search_result[q] = Some([status |-> OK,
                                      query  |-> <<" ", "c", "a", "t", " ">>,
                                      photos |-> <<>>,
                                      tags   |-> None])

\* C18: the limit handed to the vector search is the caller's limit clamped
\* into [1, 200]: 24 when omitted, 1 for a requested value of 0 or less, 200
\* for a requested value above 200, the requested value otherwise; and the
\* vector search returns at most that many photos.
C18_LimitClamped ==
    [][\A q \in Searches :
          /\ (search_pc[q] = "embed_texts" /\ search_pc'[q] = "search_by_embedding") =>
                LET requested == Unwrap(body[q]).limit
                IN  /\ limit'[q] \in 1..200
                    /\ requested = None => limit'[q] = 24
                    /\ requested # None =>
                          /\ Unwrap(requested) <= 0 => limit'[q] = 1
                          /\ Unwrap(requested) > 200 => limit'[q] = 200
                          /\ Unwrap(requested) \in 1..200 => limit'[q] = Unwrap(requested)
          /\ SearchLeaves(q, "search_by_embedding") =>
                \A db \in BOOLEAN : \A found \in QueryResults :
                    SearchByEmbeddingReturns(q, db, found) => Len(found) <= limit[q]]_vars

\* C18 witness: a search that asked for 500 photos is at the vector search
\* with limit 200
C18_Witness ==
    \E q \in Searches :
        /\ search_pc[q] = "search_by_embedding"
        /\ Unwrap(body[q]).limit = Some(500)
        /\ limit[q] = 200

\* the rows of the table that carry an embedding, and their distance to the
\* query vector of search q
EmbeddedRows == { i \in 1..Len(photos) : photos[i].tag_embedding # None }
DistanceTo(q, i) == CosineDistance(Unwrap(photos[i].tag_embedding), Unwrap(query_vec[q]))

\* the candidate sets of search q: the limit[q] nearest embedded rows, rows
\* of equal distance being interchangeable
Candidates(q) ==
    LET n == IF limit[q] < Cardinality(EmbeddedRows) THEN limit[q]
             ELSE Cardinality(EmbeddedRows)
    IN  { cand \in SUBSET EmbeddedRows :
            /\ Cardinality(cand) = n
            /\ \A i \in cand : \A j \in EmbeddedRows \ cand :
                  DistanceTo(q, i) <= DistanceTo(q, j) }

\* the row behind a photo of a result
RowOf(photo) == CHOOSE i \in 1..Len(photos) : photos[i].photo_id = photo.photo_id

\* found lists exactly the rows kept, each once, closest first
ListsClosestFirst(q, found, kept) ==
    /\ Len(found) = Cardinality(kept)
    /\ { RowOf(found[k]) : k \in 1..Len(found) } = kept
    /\ \A k \in 1..Len(found) : found[k] = Photo(photos[RowOf(found[k])])
    /\ \A k, l \in 1..Len(found) :
          k < l => DistanceTo(q, RowOf(found[k])) <= DistanceTo(q, RowOf(found[l]))

\* the vector search of q returned found from a store that answered
VectorSearchReturned(q, found) ==
    /\ search_pc[q] = "search_by_embedding"
    /\ DistanceDefined(photos, Unwrap(query_vec[q]))
    /\ SearchByEmbeddingReturns(q, TRUE, found)

\* C19: without an explicit maximum distance, the vector search returns
\* exactly those of the K nearest embedded photos whose distance is at most
\* min(m + 0.05, 0.60), m being the smallest distance among the K candidates,
\* closest first; the result is empty whenever m exceeds 0.60.
C19_AdaptiveThreshold ==
    [][\A q \in Searches :
        SearchLeaves(q, "search_by_embedding") => \A found \in QueryResults :
          (VectorSearchReturned(q, found) /\ Unwrap(body[q]).max_distance = None) =>
              \E cand \in Candidates(q) :
                  LET m     == IF cand = {} THEN 0
                               ELSE SetMin({ DistanceTo(q, i) : i \in cand })
                      bound == IF m + 50 < 600 THEN m + 50 ELSE 600
                  IN  /\ ListsClosestFirst(q, found,
                                           { i \in cand : DistanceTo(q, i) <= bound })
                      /\ m > 600 => found = <<>>]_vars

\* C19 witness: over rows at distances 0, 0.04, 0.40 and 0.72 from the query,
\* a search completed with the rows at 0 and 0.04 and nothing else
C19_Witness ==
    /\ Len(photos) = 5
    /\ \E q \in Searches :
          /\ search_pc[q] = "done"
          /\ Unwrap(search_result[q]).status = OK
          /\ Unwrap(search_result[q]).tags = None
          /\ Unwrap(search_result[q]).photos = <<Photo(photos[1]), Photo(photos[3])>>

\* C19 witness of the empty case: every candidate is farther than 0.60 from
\* the query and the search went on to the fallback
C19_WitnessEmpty ==
    /\ Len(photos) = 5
    /\ \E q \in Searches :
          /\ search_pc[q] = "tags_from_query"
          /\ Unwrap(body[q]).max_distance = None
          /\ query_vec[q] = Some(Vector(EMBEDDING_DIM, <<0, -1>>))
          /\ fallback_reason[q] = Some("vector search returned no results")

\* C20: with an explicit maximum distance T, the vector search returns the
\* K nearest embedded photos filtered to distance <= T, closest first (the
\* store filters before it limits, which gives the same list), and the
\* adaptive cap 0.60 plays no part.
C20_ExplicitThreshold ==
    [][\A q \in Searches :
        SearchLeaves(q, "search_by_embedding") => \A found \in QueryResults :
          (VectorSearchReturned(q, found) /\ Unwrap(body[q]).max_distance # None) =>
              \E cand \in Candidates(q) :
                  ListsClosestFirst(q, found,
                      { i \in cand :
                          DistanceTo(q, i) <= Unwrap(Unwrap(body[q]).max_distance) })]_vars

\* C20 witness: a search completed with four photos, the last of them at
\* distance 0.72, beyond the adaptive cap
C20_Witness ==
    /\ Len(photos) = 5
    /\ \E q \in Searches :
          /\ search_pc[q] = "done"
          /\ Unwrap(search_result[q]).status = OK
          /\ Unwrap(search_result[q]).photos =
                 <<Photo(photos[1]), Photo(photos[3]), Photo(photos[4]), Photo(photos[5])>>

(***************************************************************************)
(* Properties of list_images and search_images.                            *)
(***************************************************************************)
\* found lists exactly the rows given, each once, newest first
ListsNewestFirst(found, rows) ==
    /\ Len(found) = Cardinality(rows)
    /\ { RowOf(found[k]) : k \in 1..Len(found) } = rows
    /\ \A k \in 1..Len(found) : found[k] = Photo(photos[RowOf(found[k])])
    /\ \A k, l \in 1..Len(found) :
          k < l => found[k].created_at >= found[l].created_at

C17_ListImages ==
    [][\A l \in Reads :
        ListLeaves(l) => \A found \in ReadResults :
          ListQueryReturns(l, TRUE, found) =>
              LET param    == Unwrap(list_params[l]).tags
                  filter   == IF param = None THEN <<>> ELSE parse_tags(Unwrap(param))
                  expected == IF filter = <<>> THEN 1..Len(photos)
                              ELSE { i \in 1..Len(photos) :
                                       Range(photos[i].tags) \cap Range(filter) # {} }
              IN  /\ list_result'[l] = Some([status |-> OK, photos |-> found])
                  /\ ListsNewestFirst(found, expected)]_vars

\* C17 witness: of a store of five photos, a list request completed with the
\* three that carry one of its two tags, the newest first
C17_Witness ==
    /\ Len(photos) = 5
    /\ \E l \in Reads :
          /\ list_pc[l] = "done"
          /\ list_calls[l] = <<"search_by_tags">>
          /\ list_result[l] = Some([status |-> OK,
                                    photos |-> <<Photo(photos[3]), Photo(photos[2]),
                                                 Photo(photos[1])>>])


(***************************************************************************)
(* Properties of the vector stage's ordering.                              *)
(***************************************************************************)
\* the response of search q came from the vector stage: the step leaves the
\* vector search and completes the request with a success
AnsweredFromVectorStage(q) ==
    /\ SearchLeaves(q, "search_by_embedding")
    /\ search_pc'[q] = "done"
    /\ SemanticResponse(q).status = OK

\* C21: whenever a semantic search answers from the vector stage, with an
\* explicit cutoff or in adaptive mode, the photos of the response are in
\* order of non-decreasing distance to the query vector, closest first.
C21_ClosestFirst ==
    [][\A q \in Searches :
        AnsweredFromVectorStage(q) =>
            LET found == SemanticResponse(q).photos
            IN  \A k, l \in 1..Len(found) :
                  k < l => DistanceTo(q, RowOf(found[k])) <= DistanceTo(q, RowOf(found[l]))]_vars

\* C21 witness: a search with an explicit cutoff completed with three photos
\* at distances 0, 0.04 and 0.40 from the query, in that order
C21_Witness ==
    /\ Len(photos) = 5
    /\ \E q \in Searches :
          /\ search_pc[q] = "done"
          /\ search_calls[q] = <<"embed_texts", "search_by_embedding">>
          /\ Unwrap(search_result[q]).status = OK
          /\ Unwrap(search_result[q]).photos =
                 <<Photo(photos[1]), Photo(photos[3]), Photo(photos[4])>>

(***************************************************************************)
(* services/lm_studio.rs: embed_texts called on its own, with any number   *)
(* of inputs and any answer of the embeddings endpoint.                    *)
(***************************************************************************)
MaxEmbedInputs == 2

\* the sequences over S of at most n elements
SeqsUpTo(S, n) == UNION { [1..k -> S] : k \in 0..n }

\* the inputs slice of a call
EmbedInputs == SeqsUpTo({ <<"c", "a", "t">>, <<"s", "u", "n">> }, MaxEmbedInputs)

\* payload.data of an answer: up to one vector more than the longest inputs
EmbedPayloads ==
    SeqsUpTo({ Vector(EMBEDDING_DIM, <<1, 0>>), Vector(EMBEDDING_DIM, <<0, 1>>),
               Vector(EMBEDDING_DIM + 256, <<1, 0>>) }, MaxEmbedInputs + 1)

\* what the endpoint may answer to a call
EmbedCallReplies ==
    { EmbedReply(FALSE, 0, FALSE, <<>>),
      EmbedReply(TRUE, 503, FALSE, <<>>),
      EmbedReply(TRUE, 200, FALSE, <<>>) }
    \cup { EmbedReply(TRUE, 200, TRUE, data) : data \in EmbedPayloads }

InitEmbedTexts ==
    /\ RequestsIdle
    /\ disk = <<>>
    /\ photos = <<>>
    /\ next_id = 1
    /\ clock = 0
    /\ PoolIdle
    /\ tags_input = None
    /\ tags_result = None
    /\ embed_inputs \in EmbedInputs
    /\ embed_reply \in EmbedCallReplies
    /\ embed_result = None

\* lines 212-255: the call returns
EmbedTextsReturns ==
    /\ embed_result = None
    /\ embed_result' = Some(embed_texts(embed_inputs, embed_reply))
    /\ UNCHANGED <<upload_vars, search_vars, read_vars, disk, store, pool_vars,
                   embed_inputs, embed_reply, tags_input, tags_result>>

SpecEmbedTexts == InitEmbedTexts /\ [][EmbedTextsReturns]_vars

\* C22: embed_texts returns success only when the endpoint answered with as
\* many vectors as there were inputs, and then returns exactly those
\* vectors; an answer with more or with fewer vectors is an error, never a
\* truncated or padded list.
C22_EmbeddingCountMatches ==
    embed_result # None =>
        LET returned == Unwrap(embed_result)
        IN  /\ returned.ok => /\ Len(embed_reply.data) = Len(embed_inputs)
                              /\ returned.value = embed_reply.data
            /\ Len(embed_reply.data) # Len(embed_inputs) => ~returned.ok

\* C22 witness: a call with two inputs, answered with three vectors, returned
\* the error about the number of embeddings
C22_Witness ==
    /\ Len(embed_inputs) = 2
    /\ embed_reply # None
    /\ embed_reply.json
    /\ Len(embed_reply.data) = 3
    /\ embed_result = Some(Err("LM Studio returned a wrong number of embeddings"))

(***************************************************************************)
(* Properties of the order of the stages of a semantic search.             *)
(***************************************************************************)
\* the awaits of semantic_search_images in the order of the handler's text
SearchStages ==
    <<"start", "embed_texts", "search_by_embedding", "tags_from_query",
      "search_by_tags", "done">>

\* the position of an await in that order
StageOf(at) == CHOOSE k \in 1..Len(SearchStages) : SearchStages[k] = at

\* C23: within one semantic search the stages come only in the order start,
\* embedding call, vector search, fallback tagging call, tag-overlap query,
\* done, and none is entered again: each of the four calls is issued at most
\* once, so a call that failed or timed out is not retried, and a finished
\* request issues nothing more.
C23_StagesInOrder ==
    [][\A q \in Searches :
        /\ search_pc'[q] # search_pc[q] =>
              StageOf(search_pc'[q]) > StageOf(search_pc[q])
        /\ search_calls'[q] # search_calls[q] =>
              /\ search_pc'[q] # search_pc[q]
              /\ search_calls'[q] = Append(search_calls[q], search_pc'[q])
              /\ \A k \in 1..Len(search_calls[q]) :
                    StageOf(search_calls[q][k]) < StageOf(search_pc'[q])
        /\ search_pc[q] = "done" => search_calls'[q] = search_calls[q]]_vars

\* C23 witness: a search went through all four calls, the fallback tagging
\* call after a vector search that found nothing, and is done
C23_Witness ==
    \E q \in Searches :
        /\ search_pc[q] = "done"
        /\ search_calls[q] = <<"embed_texts", "search_by_embedding",
                               "tags_from_query", "search_by_tags">>
        /\ fallback_reason[q] = None
        /\ Unwrap(search_result[q]).status = OK

\* C23 witness of a failed call: the fallback tagging call timed out or
\* failed, and the search is done having issued it once
C23_WitnessFailedCall ==
    \E q \in Searches :
        /\ search_pc[q] = "done"
        /\ search_calls[q] = <<"embed_texts", "tags_from_query">>
        /\ Unwrap(search_result[q]).status = OK
        /\ Unwrap(search_result[q]).tags = None

(***************************************************************************)
(* models/photo.rs: the pool.  Photo::search_by_embedding runs its query   *)
(* in a transaction of its own on a pooled connection and tunes the index  *)
(* scan with SET LOCAL; every other query of the program is one statement  *)
(* executed on the pool.  A connection remembers its run-time parameters:  *)
(* the session's values, and the values a transaction has overridden with  *)
(* SET LOCAL, which last until that transaction ends.                      *)
(***************************************************************************)
PoolSize == 2
MaxPoolUsers == 3

Connections == 1..PoolSize
PoolUsers == 1..MaxPoolUsers

\* the values of lines 72 and 75
HNSW_EF_SEARCH == 80
IVFFLAT_PROBES == 100

\* a session that has set nothing: each parameter is Option<value>, None
\* standing for the server's default
DefaultParams == [ef_search |-> None, probes |-> None]

\* a connection as the pool opens it
FreshConnection ==
    [session |-> DefaultParams, local |-> [name \in DOMAIN DefaultParams |-> None],
     in_tx |-> FALSE,
     holder |-> 0, history |-> <<>>]

\* the parameters a statement on connection c runs under
Effective(c) ==
    [name \in DOMAIN c.session |->
        IF c.local[name] # None THEN c.local[name] ELSE c.session[name]]

\* SET name = value: lasts for the session
SetSession(c, name, value) == [c EXCEPT !.session[name] = Some(value)]

\* SET LOCAL name = value: lasts until the end of the current transaction,
\* and does nothing outside one
SetLocal(c, name, value) ==
    IF c.in_tx THEN [c EXCEPT !.local[name] = Some(value)] ELSE c

\* COMMIT or ROLLBACK by user u, after which the connection goes back to the
\* pool: the transaction's overrides end with it
EndTransaction(c, u, how) ==
    [c EXCEPT !.local = [name \in DOMAIN @ |-> None], !.in_tx = FALSE, !.holder = 0,
              !.history = Append(@, [user |-> u, end |-> how, params |-> Effective(c)])]

\* what user u's statement stmt on connection c ran under, and after whose
\* transactions on that connection
Observe(u, stmt, c) ==
    observed' = [observed EXCEPT ![u] =
                    Append(@, [stmt |-> stmt, conn |-> c,
                               params |-> Effective(conns[c]),
                               after |-> conns[c].history])]

InitPool ==
    /\ RequestsIdle
    /\ disk = <<>>
    /\ photos = <<>>
    /\ next_id = 1
    /\ clock = 0
    /\ CallsIdle
    /\ conns = [c \in Connections |-> FreshConnection]
    /\ tx_pc = [u \in PoolUsers |-> "start"]
    /\ tx_conn = [u \in PoolUsers |-> 0]
    /\ observed = [u \in PoolUsers |-> <<>>]

PoolFrame == UNCHANGED <<upload_vars, search_vars, read_vars, disk, store, call_vars>>

\* line 70: pool.begin() checks a free connection out and opens a
\* transaction on it, or fails
Begin(u, db) ==
    /\ tx_pc[u] = "start"
    /\ PoolFrame
    /\ IF ~db
       THEN /\ tx_pc' = [tx_pc EXCEPT ![u] = "failed"]
            /\ UNCHANGED <<conns, tx_conn, observed>>
       ELSE \E c \in Connections :
              /\ conns[c].holder = 0
              /\ conns' = [conns EXCEPT ![c].holder = u, ![c].in_tx = TRUE]
              /\ tx_conn' = [tx_conn EXCEPT ![u] = c]
              /\ tx_pc' = [tx_pc EXCEPT ![u] = "set_ef_search"]
              /\ Observe(u, "begin", c)

\* lines 72-120: the next statement of the transaction returns.  A failure
\* leaves through `?`, which drops the transaction: it is rolled back and the
\* connection returns to the pool.
Execute(u, db) ==
    /\ tx_pc[u] \in {"set_ef_search", "set_probes", "query", "commit"}
    /\ PoolFrame
    /\ LET c == tx_conn[u]
       IN  IF ~db
           THEN /\ conns' = [conns EXCEPT ![c] = EndTransaction(@, u, "rollback")]
                /\ tx_conn' = [tx_conn EXCEPT ![u] = 0]
                /\ tx_pc' = [tx_pc EXCEPT ![u] = "failed"]
                /\ UNCHANGED observed
           ELSE CASE tx_pc[u] = "set_ef_search" ->
                       /\ conns' = [conns EXCEPT ![c] =
                                       SetLocal(@, "ef_search", HNSW_EF_SEARCH)]
                       /\ tx_pc' = [tx_pc EXCEPT ![u] = "set_probes"]
                       /\ UNCHANGED <<tx_conn, observed>>
                  [] tx_pc[u] = "set_probes" ->
                       /\ conns' = [conns EXCEPT ![c] =
                                       SetLocal(@, "probes", IVFFLAT_PROBES)]
                       /\ tx_pc' = [tx_pc EXCEPT ![u] = "query"]
                       /\ UNCHANGED <<tx_conn, observed>>
                  [] tx_pc[u] = "query" ->
                       /\ Observe(u, "query", c)
                       /\ tx_pc' = [tx_pc EXCEPT ![u] = "commit"]
                       /\ UNCHANGED <<conns, tx_conn>>
                  [] tx_pc[u] = "commit" ->
                       /\ conns' = [conns EXCEPT ![c] = EndTransaction(@, u, "commit")]
                       /\ tx_conn' = [tx_conn EXCEPT ![u] = 0]
                       /\ tx_pc' = [tx_pc EXCEPT ![u] = "done"]
                       /\ UNCHANGED observed

\* add_photo, list_all, search_by_tags: one statement executed on the pool,
\* on whichever connection is free, outside any transaction
PoolQuery(u, db) ==
    /\ tx_pc[u] = "start"
    /\ PoolFrame
    /\ IF ~db
       THEN /\ tx_pc' = [tx_pc EXCEPT ![u] = "failed"]
            /\ UNCHANGED <<conns, tx_conn, observed>>
       ELSE \E c \in Connections :
              /\ conns[c].holder = 0
              /\ Observe(u, "statement", c)
              /\ tx_pc' = [tx_pc EXCEPT ![u] = "done"]
              /\ UNCHANGED <<conns, tx_conn>>

\* vector searches and other queries sharing the pool, in any interleaving
NextPool ==
    \E u \in PoolUsers : \E db \in BOOLEAN :
        \/ Begin(u, db)
        \/ Execute(u, db)
        \/ PoolQuery(u, db)

SpecPool == InitPool /\ [][NextPool]_vars

\* C24: the tuning parameters a vector search sets are scoped to its own
\* transaction: once the transaction has ended, by commit or by the abort
\* that follows an error, the connection in the pool carries the default
\* parameters, so no other transaction or request sharing the pool ever
\* runs under them.
C24_TuningStaysInTransaction ==
    /\ \A c \in DOMAIN conns :
          conns[c].holder = 0 =>
              /\ ~conns[c].in_tx
              /\ Effective(conns[c]) = DefaultParams
    /\ \A u \in DOMAIN observed : \A k \in 1..Len(observed[u]) :
          observed[u][k].stmt \in {"begin", "statement"} =>
              observed[u][k].params = DefaultParams

\* C24 witness: a statement of another request ran on a connection on which
\* one vector search had committed and another had been aborted, both after
\* setting the two parameters
C24_Witness ==
    \E u \in DOMAIN observed : \E k \in 1..Len(observed[u]) :
        LET o == observed[u][k]
            tuned == [ef_search |-> Some(HNSW_EF_SEARCH), probes |-> Some(IVFFLAT_PROBES)]
        IN  /\ o.stmt = "statement"
            /\ \E i, j \in 1..Len(o.after) :
                  /\ o.after[i] = [user |-> o.after[i].user, end |-> "commit",
                                   params |-> tuned]
                  /\ o.after[j] = [user |-> o.after[j].user, end |-> "rollback",
                                   params |-> tuned]

(***************************************************************************)
(* routes/images.rs: the four handlers of the router together, over one    *)
(* store that starts empty.                                                *)
(***************************************************************************)
\* the requests the router admits in one run
MaxRequests == 2

Admitted ==
    Cardinality({ r \in Uploads : pc[r] # "start" })
    + Cardinality({ q \in Searches : search_pc[q] # "start" })
    + Cardinality({ l \in Reads : list_pc[l] # "start" })
    + Cardinality({ p \in Reads : plain_pc[p] # "start" })

\* the inputs of this specification: a few of each handler's
RouterUploads ==
    { UploadRequest(<<"a",".","p","n","g">>, <<"Q","Q","=","=">>, None),
      UploadRequest(<<"a">>, <<"Q","Q","=","=">>, None) }
RouterChatReplies ==
    { ChatReply(FALSE, 0, FALSE, <<>>),
      ChatReply(TRUE, 200, TRUE, <<TextContent(<<" ",","," ",",","\n">>)>>),
      ChatReply(TRUE, 200, TRUE, <<TextContent(<<"c","a","t",","," ","s","u","n","\n">>)>>) }

NextRouter ==
    \/ \E r \in Uploads :
          \/ /\ Admitted < MaxRequests
             /\ \E payload \in RouterUploads : UploadValidate(r, payload)
          \/ \E reply \in RouterChatReplies : TagImageReturns(r, reply)
          \/ \E outcome \in {"written", "write_failed"} : SaveImageReturns(r, outcome, 0)
          \/ \E outcome \in EmbedOutcomes : EmbedReturns(r, outcome)
          \/ \E db \in BOOLEAN : AddPhotoReturns(r, db, clock + 1)
          \/ \E fails \in BOOLEAN : RemoveImageReturns(r, fails)
    \/ \E q \in Searches :
          \/ /\ Admitted < MaxRequests
             /\ \E query \in { <<>>, <<" ", "c", "a", "t", " ">> } :
                   SemanticSearchStart(q, VectorSearchRequest(query, None, None))
          \/ \E outcome \in EmbedOutcomes : SearchEmbedReturns(q, outcome)
          \/ /\ search_pc[q] = "search_by_embedding"
             /\ \E db \in BOOLEAN : \E found \in QueryResults :
                   SearchByEmbeddingReturns(q, db, found)
          \/ \E outcome \in { o \in ChatOutcomes : o.reply \in RouterChatReplies } :
                FallbackTagsReturns(q, outcome)
          \/ /\ search_pc[q] = "search_by_tags"
             /\ \E db \in BOOLEAN : \E found \in QueryResults :
                   SearchByTagsReturns(q, db, found)
    \/ \E l \in Reads :
          \/ /\ Admitted < MaxRequests
             /\ \E tags_ \in { None, Some(<<"c","a","t">>) } :
                   ListImagesStart(l, ListImagesParams(tags_))
          \/ /\ list_pc[l] \in {"list_all", "search_by_tags"}
             /\ \E db \in BOOLEAN : \E found \in ReadResults :
                   ListQueryReturns(l, db, found)
    \/ \E p \in Reads :
          \/ /\ Admitted < MaxRequests
             /\ SearchImagesStart(p, SearchRequest(<<" ", "c", "a", "t", " ">>))
          \/ \E reply \in RouterChatReplies : SearchImagesTagsReturn(p, reply)
          \/ /\ plain_pc[p] = "search_by_tags"
             /\ \E db \in BOOLEAN : \E found \in ReadResults :
                   SearchImagesByTagsReturns(p, db, found)

SpecRouter == Init /\ [][NextRouter]_vars

\* some list, tag search or semantic search takes a step
RetrievalSteps ==
    \/ \E q \in Searches : search_pc'[q] # search_pc[q]
    \/ \E l \in Reads : list_pc'[l] # list_pc[l]
    \/ \E p \in Reads : plain_pc'[p] # plain_pc[p]

\* C25: photo records are created only by an upload run that went through
\* every step and answered success, and no operation changes or deletes an
\* existing record: a step of a list, a tag search or a semantic search
\* leaves the photos table and the file store as they were, and an upload
\* only ever adds one row.
C25_RecordsOnlyAdded ==
    [][/\ Len(photos') \in {Len(photos), Len(photos) + 1}
       /\ \A i \in 1..Len(photos) : photos'[i] = photos[i]
       /\ photos' # photos =>
             \E r \in Uploads :
                 /\ pc[r] = "add_photo"
                 /\ calls[r] = <<"tag_image", "save_image", "embed_texts", "add_photo">>
                 /\ pc'[r] = "done"
                 /\ result'[r] = Some([status |-> OK,
                                       photo |-> Photo(photos'[Len(photos')])])
       /\ RetrievalSteps => /\ photos' = photos
                            /\ next_id' = next_id
                            /\ disk' = disk]_vars

\* C25 witness: one upload succeeded, and a semantic search that ran after
\* it answered with its photo, the table holding that one row still
C25_Witness ==
    /\ Len(photos) = 1
    /\ \E r \in Uploads : Succeeded(r) /\ Unwrap(result[r]).photo = Photo(photos[1])
    /\ \E q \in Searches :
          /\ search_pc[q] = "done"
          /\ Unwrap(search_result[q]).status = OK
          /\ Unwrap(search_result[q]).photos = <<Photo(photos[1])>>

(***************************************************************************)
(* tagging.rs: parse_tags called on its own, with any short text.          *)
(***************************************************************************)
MaxTagInput == 3

\* the texts handed to parse_tags: every text of at most MaxTagInput
\* characters out of a letter in both cases, a blank and a comma, and the
\* text "a, b ,,c"
TagInputs ==
    SeqsUpTo({"a", "A", " ", ","}, MaxTagInput)
    \cup { <<"a", ",", " ", "b", " ", ",", ",", "c">> }

InitParseTags ==
    /\ RequestsIdle
    /\ disk = <<>>
    /\ photos = <<>>
    /\ next_id = 1
    /\ clock = 0
    /\ PoolIdle
    /\ embed_inputs = <<>>
    /\ embed_reply = None
    /\ embed_result = None
    /\ tags_input \in { Some(text) : text \in TagInputs }
    /\ tags_result = None

\* lines 1-8: the call returns
ParseTagsReturns ==
    /\ tags_result = None
    /\ tags_result' = Some(parse_tags(Unwrap(tags_input)))
    /\ UNCHANGED <<upload_vars, search_vars, read_vars, disk, store, pool_vars,
                   embed_inputs, embed_reply, embed_result, tags_input>>

SpecParseTags == InitParseTags /\ [][ParseTagsReturns]_vars

\* C26: parse_tags returns, in their order in the input, exactly the pieces
\* between commas that are not blank, each without its surrounding
\* whitespace and otherwise as written, equal pieces and pieces differing
\* in case included ("a, b ,,c" gives ["a","b","c"]); every tag returned is
\* non-empty, neither starts nor ends with whitespace and holds no comma;
\* and parsing the comma-join of a result gives the same result.
C26_ParseTags ==
    tags_result # None =>
        LET text   == Unwrap(tags_input)
            parsed == Unwrap(tags_result)
            cuts   == {0, Len(text) + 1} \cup { i \in 1..Len(text) : text[i] = "," }
            inked(a) == { i \in (a + 1)..(SetMin({ b \in cuts : b > a }) - 1) :
                            ~IsWhitespace(text[i]) }
            kept   == { a \in cuts : a <= Len(text) /\ inked(a) # {} }
        IN  /\ Len(parsed) = Cardinality(kept)
            /\ \A a \in kept :
                  parsed[Cardinality({ b \in kept : b <= a })] =
                      SubSeq(text, SetMin(inked(a)), SetMax(inked(a)))
            /\ \A k \in 1..Len(parsed) :
                  /\ parsed[k] # <<>>
                  /\ ~IsWhitespace(parsed[k][1])
                  /\ ~IsWhitespace(parsed[k][Len(parsed[k])])
                  /\ \A i \in 1..Len(parsed[k]) : parsed[k][i] # ","
            /\ parse_tags(Join(parsed, <<",">>)) = parsed
            /\ text = <<"a", ",", " ", "b", " ", ",", ",", "c">> =>
                  parsed = << <<"a">>, <<"b">>, <<"c">> >>

\* C26 witness: "a, b ,,c" was parsed into a, b, c
C26_Witness ==
    /\ tags_input = Some(<<"a", ",", " ", "b", " ", ",", ",", "c">>)
    /\ tags_result = Some(<< <<"a">>, <<"b">>, <<"c">> >>)

\* C26 witness of equal tags: "a,a" was parsed into a, a
C26_WitnessRepeated ==
    /\ tags_input = Some(<<"a", ",", "a">>)
    /\ tags_result = Some(<< <<"a">>, <<"a">> >>)

(***************************************************************************)
(* Properties of the order of the effects of an upload.                    *)
(***************************************************************************)
\* the external calls of upload_image in the order of the handler's text
UploadEffects ==
    <<"tag_image", "save_image", "embed_texts", "add_photo", "remove_image">>

\* C27: within one upload the external effects come only in the order
\* image tagging, file write, embedding call, store insert, each at most
\* once and each issued when the one before it has returned; the
\* compensating delete is issued only when the insert has returned a
\* failure, and so never in a run whose insert succeeded or whose file write
\* failed.
C27_EffectsInOrder ==
    [][\A r \in Uploads :
        /\ calls'[r] # calls[r] =>
              /\ calls'[r] = Append(calls[r], pc'[r])
              /\ calls'[r] = SubSeq(UploadEffects, 1, Len(calls'[r]))
              /\ Len(calls[r]) > 0 => pc[r] = calls[r][Len(calls[r])]
        /\ pc[r] = "done" => calls'[r] = calls[r] /\ pc'[r] = "done"
        /\ (pc'[r] = "remove_image" /\ pc[r] # "remove_image") =>
              /\ pc[r] = "add_photo"
              /\ err'[r] # None
              /\ photos' = photos
        /\ (pc[r] = "add_photo" /\ pc'[r] = "done") =>
              /\ Unwrap(result'[r]).status = OK
              /\ calls'[r] = SubSeq(UploadEffects, 1, 4)
        /\ (pc[r] = "save_image" /\ pc'[r] = "done") =>
              /\ Unwrap(result'[r]).status = INTERNAL_SERVER_ERROR
              /\ calls'[r] = SubSeq(UploadEffects, 1, 2)]_vars

\* C27 witness: an upload whose insert failed is done, having issued the
\* five calls in order, the delete last
C27_Witness ==
    \E r \in Uploads :
        /\ Finished(r)
        /\ calls[r] = UploadEffects
        /\ Status(r) = INTERNAL_SERVER_ERROR

\* C27 witness of a failed file write: the run is done having issued the
\* tagging call and the write and nothing else
C27_WitnessWriteFailed ==
    \E r \in Uploads :
        /\ Finished(r)
        /\ calls[r] = <<"tag_image", "save_image">>
        /\ Status(r) = INTERNAL_SERVER_ERROR

(***************************************************************************)
(* routes/images.rs: semantic_search_images under the scheduling the code  *)
(* relies on.  The runtime fires the timer of each tokio::time::timeout,   *)
(* so a bounded call that is still pending is eventually cut off; the      *)
(* store answers each query sent to it.  The model service is under no     *)
(* obligation: it may never answer.                                        *)
(***************************************************************************)
\* lines 241-264 and 305-331: the 5 s timer of the embedding call, or the
\* 2 s timer of the fallback tagging call, elapses
TimerFires(q) ==
    \/ \E outcome \in QueryEmbedOutcomes :
          outcome.elapsed /\ SearchEmbedReturns(q, outcome)
    \/ \E outcome \in ChatOutcomes :
          outcome.elapsed /\ FallbackTagsReturns(q, outcome)

\* lines 279-281 and 337-343: the store answers the query of search q
StoreAnswers(q) ==
    /\ search_pc[q] \in {"search_by_embedding", "search_by_tags"}
    /\ \E db \in BOOLEAN : \E found \in QueryResults :
          \/ SearchByEmbeddingReturns(q, db, found)
          \/ SearchByTagsReturns(q, db, found)

\* the searches alone, each with the default limit
NextSearchLive ==
    \E q \in Searches :
        \/ \E query \in SearchQueries : \E max_distance \in {None, Some(900)} :
              SemanticSearchStart(q, VectorSearchRequest(query, None, max_distance))
        \/ \E outcome \in QueryEmbedOutcomes : SearchEmbedReturns(q, outcome)
        \/ /\ search_pc[q] = "search_by_embedding"
           /\ \E db \in BOOLEAN : \E found \in QueryResults :
                 SearchByEmbeddingReturns(q, db, found)
        \/ \E outcome \in ChatOutcomes : FallbackTagsReturns(q, outcome)
        \/ /\ search_pc[q] = "search_by_tags"
           /\ \E db \in BOOLEAN : \E found \in QueryResults :
                 SearchByTagsReturns(q, db, found)

SpecSearchLive ==
    /\ InitSearch
    /\ [][NextSearchLive]_vars
    /\ \A q \in Searches : WF_vars(TimerFires(q)) /\ WF_vars(StoreAnswers(q))

\* C28: a semantic search with a non-empty query, once it has issued its
\* embedding call, always eventually completes, even if the model service
\* answers neither the embedding call nor the fallback tagging call,
\* provided the store answers its queries: the timers of 5 and of 2 units
\* fire and the request reaches done.
C28_SearchCompletes ==
    \A q \in Searches : (search_pc[q] = "embed_texts") ~> (search_pc[q] = "done")

\* C28 witness: the embedding call of a search was cut off by its timer and
\* the search waits on its fallback tagging call
C28_Witness ==
    \E q \in Searches :
        /\ search_pc[q] = "tags_from_query"
        /\ search_calls[q] = <<"embed_texts", "tags_from_query">>
        /\ fallback_reason[q] = Some("embedding request timed out")

\* C28 witness of completion: a search that got no vector and no tags is
\* done with an empty success
C28_WitnessDone ==
    \E q \in Searches :
        /\ search_pc[q] = "done"
        /\ search_calls[q] = <<"embed_texts", "tags_from_query">>
        /\ search_result[q] =
               Some(VectorSearchResponse(<<" ", "c", "a", "t", " ">>, <<>>, None))

(***************************************************************************)
(* Properties of store failures in semantic search.                        *)
(***************************************************************************)
\* the store refuses the vector search of q: it is unreachable, or it
\* rejects the query vector
VectorSearchFails(q) ==
    /\ search_pc[q] = "search_by_embedding"
    /\ \/ SearchByEmbeddingReturns(q, FALSE, <<>>)
       \/ /\ ~DistanceDefined(photos, Unwrap(query_vec[q]))
          /\ SearchByEmbeddingReturns(q, TRUE, <<>>)

\* C29: in semantic search a failure of the store is never degraded: when
\* the vector search fails the request ends with the storage error and the
\* tag fallback is not run, when the tag-overlap query of the fallback fails
\* the request ends with the storage error, and a semantic search ends
\* otherwise than in success only with the validation error of an empty
\* query or with this storage error.
C29_StoreFailureIsFatal ==
    [][\A q \in Searches :
        /\ VectorSearchFails(q) =>
              /\ search_pc'[q] = "done"
              /\ search_result'[q] = Some(AppErrorFrom("sqlx"))
              /\ search_calls'[q] = search_calls[q]
        /\ (search_pc[q] = "search_by_tags" /\ SearchByTagsReturns(q, FALSE, <<>>)) =>
              /\ search_pc'[q] = "done"
              /\ search_result'[q] = Some(AppErrorFrom("sqlx"))
        /\ SearchResponded(q) =>
              \/ SemanticResponse(q).status = OK
              \/ /\ SemanticResponse(q) = bad_request("query cannot be empty")
                 /\ search_pc[q] = "start"
              \/ /\ SemanticResponse(q) = AppErrorFrom("sqlx")
                 /\ search_pc[q] \in {"search_by_embedding", "search_by_tags"}
                 /\ search_errlog'[q] # None
                 /\ Unwrap(search_errlog'[q]).line = "database error"]_vars

\* C29 witness: a search whose vector search failed is done with the storage
\* error, having issued no fallback call
C29_Witness ==
    \E q \in Searches :
        /\ search_pc[q] = "done"
        /\ search_calls[q] = <<"embed_texts", "search_by_embedding">>
        /\ search_result[q] = Some(AppErrorFrom("sqlx"))
        /\ Unwrap(search_errlog[q]).line = "database error"

\* C29 witness of the fallback: a search whose tag-overlap query failed is
\* done with the storage error
C29_WitnessFallback ==
    \E q \in Searches :
        /\ search_pc[q] = "done"
        /\ Len(search_calls[q]) > 0
        /\ search_calls[q][Len(search_calls[q])] = "search_by_tags"
        /\ search_result[q] = Some(AppErrorFrom("sqlx"))

(***************************************************************************)
(* Properties of photos stored without an embedding.                       *)
(***************************************************************************)
\* the photo of a response is one of a row that carries no embedding
WithoutEmbedding(photo) ==
    \E i \in 1..Len(photos) :
        photos[i].photo_id = photo.photo_id /\ photos[i].tag_embedding = None

\* C30: a photo stored without an embedding is never returned by the vector
\* stage of a semantic search, with an explicit cutoff or in adaptive mode;
\* it appears in the response of a semantic search only through the tag
\* fallback, which a search that ran its vector stage enters only when that
\* stage found nothing.
C30_UnembeddedOnlyByFallback ==
    [][\A q \in Searches :
        /\ AnsweredFromVectorStage(q) =>
              \A k \in 1..Len(SemanticResponse(q).photos) :
                  ~WithoutEmbedding(SemanticResponse(q).photos[k])
        /\ ( /\ SearchResponded(q)
             /\ SemanticResponse(q).status = OK
             /\ \E k \in 1..Len(SemanticResponse(q).photos) :
                   WithoutEmbedding(SemanticResponse(q).photos[k]) ) =>
              /\ search_pc[q] = "search_by_tags"
              /\ SemanticResponse(q).tags # None
        /\ (SearchLeaves(q, "search_by_embedding") /\ search_pc'[q] = "tags_from_query") =>
              search_by_embedding(photos, Unwrap(query_vec[q]), limit[q],
                                  Unwrap(body[q]).max_distance) = { <<>> }]_vars

\* C30 witness: over a table of five rows, the second without an embedding,
\* the vector stage answered with the four others
C30_Witness ==
    /\ Len(photos) = 5
    /\ photos[2].tag_embedding = None
    /\ \E q \in Searches :
          /\ search_pc[q] = "done"
          /\ search_calls[q] = <<"embed_texts", "search_by_embedding">>
          /\ Unwrap(search_result[q]).status = OK
          /\ { Unwrap(search_result[q]).photos[k].photo_id :
                 k \in 1..Len(Unwrap(search_result[q]).photos) } = {1, 3, 4, 5}

\* C30 witness of the fallback: the only photo of the table has no
\* embedding, the vector stage found nothing, and the tag fallback answered
\* with that photo
C30_WitnessFallback ==
    /\ Len(photos) = 1
    /\ photos[1].tag_embedding = None
    /\ \E q \in Searches :
          /\ search_pc[q] = "done"
          /\ search_calls[q] = <<"embed_texts", "search_by_embedding",
                                 "tags_from_query", "search_by_tags">>
          /\ Unwrap(search_result[q]).photos = <<Photo(photos[1])>>

(***************************************************************************)
(* Properties of the tagging call of search_images.                        *)
(***************************************************************************)
\* C31: on POST /images/search the tagging call of the query is mandatory
\* and unbounded: the request leaves the call only when the model service
\* has answered, no timer cutting it off; a failed call ends the request
\* with the service error, not with an empty result; and the store is
\* queried only after the call succeeded.
C31_PlainTaggingMandatory ==
    [][\A p \in Reads :
        /\ PlainLeaves(p, "tags_from_query") =>
              /\ \E reply \in ChatReplies : SearchImagesTagsReturn(p, reply)
              /\ \A reply \in ChatReplies :
                    (~QueryTags[reply].ok /\ SearchImagesTagsReturn(p, reply)) =>
                        /\ plain_pc'[p] = "done"
                        /\ plain_result'[p] = Some(AppErrorFrom("anyhow"))
                        /\ plain_errlog'[p] =
                               Some([line |-> "internal error",
                                     error |-> QueryTags[reply].error])
                        /\ plain_calls'[p] = <<"tags_from_query">>
              /\ plain_pc'[p] = "search_by_tags" =>
                    \E reply \in ChatReplies :
                        /\ QueryTags[reply].ok
                        /\ plain_tags'[p] = QueryTags[reply].value
        /\ plain_calls'[p] # plain_calls[p] =>
              \/ plain_pc[p] = "start" /\ plain_calls'[p] = <<"tags_from_query">>
              \/ /\ plain_pc[p] = "tags_from_query"
                 /\ plain_calls'[p] = <<"tags_from_query", "search_by_tags">>]_vars

\* C31 witness: over a store that holds photos, a tag search whose tagging
\* call failed is done with the service error, the store not queried
C31_Witness ==
    /\ photos # <<>>
    /\ \E p \in Reads :
          /\ plain_pc[p] = "done"
          /\ plain_calls[p] = <<"tags_from_query">>
          /\ plain_result[p] = Some(AppErrorFrom("anyhow"))
          /\ plain_errlog[p] # None
          /\ Unwrap(plain_errlog[p]).line = "internal error"
====
